---- MODULE Spec2Model ----
(***************************************************************************)
(* A model of securesystemslib's key model (signer/_key.py) and canonical  *)
(* serializer (formats.py).                                                *)
(*                                                                         *)
(*   Spec        SSlibKey.verify_signature on constructed keys             *)
(*   SpecKey     the registry, Key.from_dict, SSlibKey.from_dict,          *)
(*               SSlibKey.from_securesystemslib_key and to_dict            *)
(*   SpecEncode  encode_canonical                                          *)
(*                                                                         *)
(* Python text is a sequence of pieces: its characters wherever the code   *)
(* looks inside it (hex decoding, escaping, sorting), its "-"-separated    *)
(* parts for a scheme, and a single piece where the code only compares the *)
(* text for equality.  A Python value is a                                 *)
(* record [t |-> <type tag>, v |-> <content>]; a dict is a function from   *)
(* its keys to such values.  A Key object holds keyid, keytype and scheme  *)
(* as bare text, which Key.__init__ has checked them to be.                *)
(***************************************************************************)
EXTENDS Integers, Sequences, FiniteSets, TLC

VARIABLES
    CRYPTO_IMPORT_ERROR,      \* _key.py:17-46, TRUE iff the import of pyca/cryptography failed
    key,                      \* the Key object in hand (constructed, or returned by the last call)
    signature,                \* the Signature argument of the last verify_signature call
    outcome,                  \* how that call ended: "return" or the exception that escaped
    steps,                    \* the operations that call performed, in order
    KEY_FOR_TYPE_AND_SCHEME,  \* _key.py:53, the dispatch table
    key_dict,                 \* the caller's dict object handed to from_dict, as it is now
    arg,                      \* that dict as it was when the call was made
    res,                      \* what the last key-model call returned or raised
    out,                      \* the dict the last to_dict call returned
    object,                   \* the argument of the last encode_canonical call
    other,                    \* the same value with its mappings inserted in another order
    result,                   \* what encode_canonical(object) returned or raised
    result2,                  \* what encode_canonical(other) returned or raised
    streamed,                 \* what encode_canonical(object, output_function) did
    candidate,                \* the value a caller has built to hand to a schema
    edits,                    \* how many fields the caller has set or deleted in it
    matched,                  \* the schema it was handed to, and that schema's answer
    helper,                   \* the last call of a format helper: argument and outcome
    threads                   \* the concurrent Key.from_dict calls, each with its locals

verifyVars == <<CRYPTO_IMPORT_ERROR, signature, outcome, steps>>
keyVars == <<KEY_FOR_TYPE_AND_SCHEME, key_dict, arg, res, out>>
encodeVars == <<object, other, result, result2, streamed>>
formatVars == <<candidate, edits, matched, helper>>
threadVars == <<threads>>
vars == <<key, verifyVars, keyVars, encodeVars, formatVars, threadVars>>

\* A value that stands for "no object here" in a variable of the model.
Nothing == [t |-> "nothing", v |-> 0]

\* Python values.
Str(text) == [t |-> "str", v |-> text]
PyInt(n) == [t |-> "int", v |-> n]
None == [t |-> "None", v |-> 0]
Dict(d) == [t |-> "dict", v |-> d]

\* The dict with no entries, and d without the entry for k.
EmptyDict == [k \in {} |-> None]
Without(d, k) == [j \in DOMAIN d \ {k} |-> d[j]]

(***************************************************************************)
(* Bounds of the model.                                                    *)
(***************************************************************************)
\* Longest hex text tried as signature.signature and keyval["public"].
MaxHexLen == 2

\* Most nodes (scalars, sequences, mappings) of a value handed to encode_canonical.
MaxNodes == 4

\* All sequences over S of length at most n.
RECURSIVE SeqsUpTo(_, _)
SeqsUpTo(S, n) ==
    IF n = 0 THEN {<<>>}
    ELSE LET shorter == SeqsUpTo(S, n - 1)
         IN  shorter \cup {Append(s, c) : s \in {x \in shorter : Len(x) = n - 1}, c \in S}

(***************************************************************************)
(* bytes.fromhex: two hex digits per byte; anything else is a ValueError.  *)
(***************************************************************************)
HexDigits == {"0", "1", "2", "3", "4", "5", "6", "7", "8", "9",
              "a", "b", "c", "d", "e", "f", "A", "B", "C", "D", "E", "F"}

HexVal(c) ==
    CASE c = "0" -> 0 [] c = "1" -> 1 [] c = "2" -> 2 [] c = "3" -> 3
      [] c = "4" -> 4 [] c = "5" -> 5 [] c = "6" -> 6 [] c = "7" -> 7
      [] c = "8" -> 8 [] c = "9" -> 9
      [] c \in {"a", "A"} -> 10 [] c \in {"b", "B"} -> 11
      [] c \in {"c", "C"} -> 12 [] c \in {"d", "D"} -> 13
      [] c \in {"e", "E"} -> 14 [] c \in {"f", "F"} -> 15

\* [ok |-> TRUE, bytes |-> <<...>>] or [ok |-> FALSE, bytes |-> <<>>] (ValueError).
fromhex(text) ==
    IF Len(text) % 2 = 0 /\ \A i \in 1..Len(text) : text[i] \in HexDigits
    THEN [ok |-> TRUE,
          bytes |-> [i \in 1..(Len(text) \div 2) |->
                        16 * HexVal(text[2 * i - 1]) + HexVal(text[2 * i])]]
    ELSE [ok |-> FALSE, bytes |-> <<>>]

(***************************************************************************)
(* Schemes.  A scheme string is held as the list of its "-"-separated      *)
(* parts, so that scheme.split("-") is the list itself.                    *)
(***************************************************************************)
RsaSchemes ==
    {<<pad, "pss", h>> : pad \in {"rsassa"}, h \in {"sha224", "sha256", "sha384", "sha512"}}
    \cup {<<"rsa", "pkcs1v15", h>> : h \in {"sha224", "sha256", "sha384", "sha512"}}

EcdsaSchemes == {<<"ecdsa", "sha2", "nistp256">>, <<"ecdsa", "sha2", "nistp384">>}

Ed25519Scheme == <<"ed25519">>

\* The last three characters of the scheme string, scheme[-3:].
LastThree(scheme) ==
    LET last == scheme[Len(scheme)]
    IN  CASE last = "nistp256" -> "256"
          [] last = "nistp384" -> "384"
          [] OTHER -> "???"

\* SSlibKey._get_hash_algorithm: a name that matches no branch leaves
\* 'algorithm' unbound, and the return raises UnboundLocalError.
get_hash_algorithm(name) ==
    IF name \in {"sha224", "sha256", "sha384", "sha512"}
    THEN [exc |-> "none", value |-> name]
    ELSE [exc |-> "UnboundLocalError", value |-> ""]

\* SSlibKey._get_rsa_padding, likewise.
get_rsa_padding(name, hash_algorithm) ==
    IF name = "pss" THEN [exc |-> "none", value |-> <<"PSS", hash_algorithm>>]
    ELSE IF name = "pkcs1v15" THEN [exc |-> "none", value |-> <<"PKCS1v15">>]
    ELSE [exc |-> "UnboundLocalError", value |-> <<>>]

(***************************************************************************)
(* SSlibKey.verify_signature.                                              *)
(*                                                                         *)
(* The cryptographic primitives are not part of this code base; what they  *)
(* answer is an input of the call:                                         *)
(*   load  "ok" | "raise"             load_pem_public_key and              *)
(*                                    Ed25519PublicKey.from_public_bytes   *)
(*   prim  "valid" | "invalid" | "raise"   checkvalid and key.verify;      *)
(*         "invalid" is SignatureMismatch resp. InvalidSignature, "raise"  *)
(*         any other exception (e.g. a wrong length)                       *)
(* A try body yields [exc, steps]: the exception it raised ("none" when it *)
(* ran to its end) and the operations it performed.                        *)
(***************************************************************************)
LoadOutcomes == {"ok", "raise"}
PrimOutcomes == {"valid", "invalid", "raise"}

\* bytes.fromhex(self.keyval["public"]), as a try-body fragment: KeyError without
\* the entry, TypeError when it is no text, ValueError when it is no hex text.
public_bytes(self) ==
    IF "public" \notin DOMAIN self.keyval
    THEN [exc |-> "KeyError", steps |-> <<>>]
    ELSE IF self.keyval["public"].t # "str"
    THEN [exc |-> "TypeError", steps |-> <<"fromhex_public">>]
    ELSE IF ~fromhex(self.keyval["public"].v).ok
    THEN [exc |-> "ValueError", steps |-> <<"fromhex_public">>]
    ELSE [exc |-> "none", steps |-> <<"fromhex_public">>]

\* _key.py:266-271, the try body taken when CRYPTO_IMPORT_ERROR is set.
FallbackBody(self, prim) ==
    IF self.scheme # Ed25519Scheme
    THEN [exc |-> "UnsupportedLibraryError", steps |-> <<>>]
    ELSE LET pub == public_bytes(self)
         IN  IF pub.exc # "none" THEN pub
             ELSE [exc |-> CASE prim = "valid" -> "none"
                             [] prim = "invalid" -> "SignatureMismatch"
                             [] OTHER -> "Exception",
                   steps |-> pub.steps \o <<"checkvalid">>]

\* _key.py:273-284, the except clauses of that try.
FallbackExcept(exc) ==
    CASE exc = "none" -> "return"
      [] exc = "SignatureMismatch" -> "UnverifiedSignatureError"
      [] OTHER -> "VerificationError"

\* SSlibKey._from_pem, as a try-body fragment: self.keyval["public"].encode(...)
\* raises KeyError without the entry and AttributeError when it is no text.
from_pem(self, load) ==
    IF "public" \notin DOMAIN self.keyval
    THEN [exc |-> "KeyError", steps |-> <<>>]
    ELSE IF self.keyval["public"].t # "str"
    THEN [exc |-> "AttributeError", steps |-> <<>>]
    ELSE [exc |-> IF load = "ok" THEN "none" ELSE "ValueError",
          steps |-> <<"load_pem_public_key">>]

\* The outcome of key.verify(...) of the crypto provider.
ProviderVerify(prim) ==
    CASE prim = "valid" -> "none"
      [] prim = "invalid" -> "InvalidSignature"
      [] OTHER -> "Exception"

\* A variant of ProviderBody in which a scheme outside the three lists falls
\* through the if/elif chain without raising.
ProviderBodyNoElse(self, load, prim) ==
    IF self.scheme \in RsaSchemes \cup EcdsaSchemes
    THEN LET pem == from_pem(self, load)
         IN  IF pem.exc # "none" THEN pem
             ELSE [exc |-> ProviderVerify(prim),
                   steps |-> pem.steps \o <<"key.verify">>]
    ELSE IF self.scheme = Ed25519Scheme
    THEN LET pub == public_bytes(self)
         IN  IF pub.exc # "none" THEN pub
             ELSE IF load # "ok"
             THEN [exc |-> "ValueError", steps |-> pub.steps \o <<"from_public_bytes">>]
             ELSE [exc |-> ProviderVerify(prim),
                   steps |-> pub.steps \o <<"from_public_bytes", "key.verify">>]
    ELSE [exc |-> "none", steps |-> <<>>]

\* _key.py:288-323, the try body taken when the crypto provider was imported.
ProviderBody(self, load, prim) ==
    IF self.scheme \in RsaSchemes
    THEN LET pem == from_pem(self, load)
             names == Tail(self.scheme)        \* self.scheme.split("-")[1:]
             hash == get_hash_algorithm(names[2])
             padding == get_rsa_padding(names[1], hash.value)
         IN  IF pem.exc # "none" THEN pem
             ELSE IF hash.exc # "none"
             THEN [exc |-> hash.exc, steps |-> pem.steps \o <<"get_hash_algorithm">>]
             ELSE IF padding.exc # "none"
             THEN [exc |-> padding.exc,
                   steps |-> pem.steps \o <<"get_hash_algorithm", "get_rsa_padding">>]
             ELSE [exc |-> ProviderVerify(prim),
                   steps |-> pem.steps \o <<"get_hash_algorithm", "get_rsa_padding",
                                             "key.verify">>]
    ELSE IF self.scheme \in EcdsaSchemes
    THEN LET pem == from_pem(self, load)
             hash == get_hash_algorithm("sha" \o LastThree(self.scheme))
         IN  IF pem.exc # "none" THEN pem
             ELSE IF hash.exc # "none"
             THEN [exc |-> hash.exc, steps |-> pem.steps \o <<"get_hash_algorithm">>]
             ELSE [exc |-> ProviderVerify(prim),
                   steps |-> pem.steps \o <<"get_hash_algorithm", "key.verify">>]
    ELSE IF self.scheme \in {Ed25519Scheme}
    THEN LET pub == public_bytes(self)
         IN  IF pub.exc # "none" THEN pub
             ELSE IF load # "ok"
             THEN [exc |-> "ValueError", steps |-> pub.steps \o <<"from_public_bytes">>]
             ELSE [exc |-> ProviderVerify(prim),
                   steps |-> pub.steps \o <<"from_public_bytes", "key.verify">>]
    ELSE [exc |-> "ValueError", steps |-> <<>>]

\* _key.py:326-337, the except clauses of that try.
ProviderExcept(exc) ==
    CASE exc = "none" -> "return"
      [] exc = "InvalidSignature" -> "UnverifiedSignatureError"
      [] OTHER -> "VerificationError"

\* The exception a keyid mismatch would raise were it the "verified and failed" kind.
KeyidMismatchAsUnverified == "UnverifiedSignatureError"

\* _key.py:258, the exception raised when signature.keyid != self.keyid.
KeyidMismatchError == "VerificationError"

\* _key.py:263-337: verify_signature from the hex decoding of the signature on.
AfterKeyidCheck(self, sig, crypto_import_error, load, prim) ==
    IF ~fromhex(sig.signature).ok
    THEN [outcome |-> "ValueError", steps |-> <<"fromhex_signature">>]
    ELSE IF crypto_import_error
    THEN LET body == FallbackBody(self, prim)
         IN  [outcome |-> FallbackExcept(body.exc),
              steps |-> <<"fromhex_signature">> \o body.steps]
    ELSE LET body == ProviderBody(self, load, prim)
         IN  [outcome |-> ProviderExcept(body.exc),
              steps |-> <<"fromhex_signature">> \o body.steps]

\* A variant of verify_signature that compares the keyids only after the call
\* has otherwise run.
verify_signature_keyid_last(self, sig, crypto_import_error, load, prim) ==
    LET run == AfterKeyidCheck(self, sig, crypto_import_error, load, prim)
    IN  IF sig.keyid # self.keyid
        THEN [outcome |-> KeyidMismatchError, steps |-> run.steps \o <<"keyid_check">>]
        ELSE run

\* _key.py:256-337, SSlibKey.verify_signature: [outcome, steps].
verify_signature(self, sig, crypto_import_error, load, prim) ==
    IF sig.keyid # self.keyid
    THEN [outcome |-> KeyidMismatchError, steps |-> <<"keyid_check">>]
    ELSE LET run == AfterKeyidCheck(self, sig, crypto_import_error, load, prim)
         IN  [outcome |-> run.outcome, steps |-> <<"keyid_check">> \o run.steps]

(***************************************************************************)
(* Key objects.                                                            *)
(***************************************************************************)
\* _key.py:77-97, Key.__init__ on Python values: [exc, key].
KeyInit(keyid, keytype, scheme, keyval, unrecognized_fields) ==
    IF keyid.t # "str" \/ keytype.t # "str" \/ scheme.t # "str" \/ keyval.t # "dict"
    THEN [exc |-> "TypeError", key |-> Nothing]
    ELSE [exc |-> "none",
          key |-> [keyid |-> keyid.v, keytype |-> keytype.v, scheme |-> scheme.v,
                   keyval |-> keyval.v,
                   unrecognized_fields |-> IF unrecognized_fields = None THEN EmptyDict
                                           ELSE unrecognized_fields.v]]

(***************************************************************************)
(* The inputs tried.                                                       *)
(***************************************************************************)
KeyIds == {<<"k1">>, <<"k2">>}
KeyTypes == {<<"rsa">>, <<"ed25519">>}
UnknownSchemes == {<<"rsassa", "pss", "md5">>, <<"ed25519ph">>, <<"">>}
Schemes == RsaSchemes \cup EcdsaSchemes \cup {Ed25519Scheme} \cup UnknownSchemes
\* Texts of hex digits of every length up to the bound (odd lengths are no hex
\* encoding), and a text of the right length that holds no hex digits.
HexTexts == SeqsUpTo({"a"}, MaxHexLen) \cup {<<"z", "z">>}
VerifyKeyVals ==
    {EmptyDict, [k \in {"public"} |-> PyInt(1)]}
    \cup {[k \in {"public"} |-> Str(h)] : h \in HexTexts}
Signatures == [keyid : KeyIds, signature : HexTexts]

(***************************************************************************)
(* Spec: keys are constructed and asked to verify signatures.              *)
(***************************************************************************)
InitVerify ==
    /\ CRYPTO_IMPORT_ERROR \in BOOLEAN
    /\ signature = Nothing
    /\ outcome = "pending"
    /\ steps = <<>>

InitKey ==
    /\ KEY_FOR_TYPE_AND_SCHEME = EmptyDict
    /\ key_dict = Nothing
    /\ arg = Nothing
    /\ res = Nothing
    /\ out = Nothing

InitEncode ==
    /\ object = Nothing
    /\ other = Nothing
    /\ result = Nothing
    /\ result2 = Nothing
    /\ streamed = Nothing

InitFormats ==
    /\ candidate = Nothing
    /\ edits = 0
    /\ matched = Nothing
    /\ helper = Nothing

InitThreads == threads = <<>>

Init == key = Nothing /\ InitVerify /\ InitKey /\ InitEncode /\ InitFormats /\ InitThreads

\* SSlibKey(keyid, keytype, scheme, keyval): the key this specification follows
\* (a Key is never modified once constructed).
Construct ==
    /\ key = Nothing
    /\ \E keyid \in KeyIds, keytype \in KeyTypes, scheme \in Schemes, keyval \in VerifyKeyVals :
        key' = KeyInit(Str(keyid), Str(keytype), Str(scheme), Dict(keyval), None).key
    /\ UNCHANGED <<verifyVars, keyVars, encodeVars, formatVars, threadVars>>

\* key.verify_signature(sig, data)
VerifySignature ==
    /\ key # Nothing
    /\ \E sig \in Signatures, load \in LoadOutcomes, prim \in PrimOutcomes :
        LET run == verify_signature(key, sig, CRYPTO_IMPORT_ERROR, load, prim)
        IN  /\ signature' = sig
            /\ outcome' = run.outcome
            /\ steps' = run.steps
    /\ UNCHANGED <<CRYPTO_IMPORT_ERROR, key, keyVars, encodeVars, formatVars, threadVars>>

Next == Construct \/ VerifySignature

Spec == Init /\ [][Next]_vars

(***************************************************************************)
(* Claims about verify_signature, under Spec.                              *)
(***************************************************************************)
\* A verify_signature call has been made (so there is a key and a signature).
Called == outcome # "pending"

KeyidMismatch == Called /\ signature.keyid # key.keyid

\* C1: every verify_signature call ends in one of three ways: it returns, it
\* raises UnverifiedSignatureError itself, or it raises VerificationError; no
\* other exception escapes.
C1_ThreeOutcomes ==
    Called => outcome \in {"return", "UnverifiedSignatureError", "VerificationError"}

\* C2, as claimed: when signature.keyid differs from the key's keyid the call
\* raises UnverifiedSignatureError itself, the "verified and failed" kind.
C2_MismatchRaisesUnverified ==
    KeyidMismatch => outcome = "UnverifiedSignatureError"

\* C2, as amended: when signature.keyid differs from the key's keyid the call
\* raises VerificationError, the "could not verify" kind.
C2_MismatchRaisesVerificationError ==
    KeyidMismatch => outcome = "VerificationError"

C2_Witness ==
    KeyidMismatch /\ outcome = "VerificationError" /\ fromhex(signature.signature).ok

\* C3: the keyid comparison is the first step; on a mismatch the call has done
\* nothing else: no hex decoding of the signature, no loading of key material,
\* no verifier, whatever the scheme, the provider and the inputs' shape.
C3_KeyidCheckFirst ==
    KeyidMismatch => steps = <<"keyid_check">>

C3_Witness ==
    /\ KeyidMismatch
    /\ ~fromhex(signature.signature).ok
    /\ key.scheme \in UnknownSchemes
    /\ steps = <<"keyid_check">>

\* C4: without the crypto provider the pure-software verifier (checkvalid) is
\* called only for scheme "ed25519", and for every other scheme the call raises
\* VerificationError.
C4_FallbackOnlyEd25519 ==
    (Called /\ CRYPTO_IMPORT_ERROR) =>
        /\ (\E i \in 1..Len(steps) : steps[i] = "checkvalid") => key.scheme = Ed25519Scheme
        /\ key.scheme # Ed25519Scheme => outcome = "VerificationError"

\* C5: for a scheme outside the eleven supported names, with the keyid matching
\* and the signature valid hex, the call raises VerificationError, whatever the
\* keytype and with or without the crypto provider.
C5_UnknownSchemeFails ==
    ( /\ Called
      /\ key.scheme \notin RsaSchemes \cup EcdsaSchemes \cup {Ed25519Scheme}
      /\ signature.keyid = key.keyid
      /\ fromhex(signature.signature).ok ) => outcome = "VerificationError"

C5_Witness ==
    /\ Called
    /\ ~CRYPTO_IMPORT_ERROR
    /\ key.scheme = <<"ed25519ph">>
    /\ key.keytype = <<"ed25519">>
    /\ signature.keyid = key.keyid
    /\ fromhex(signature.signature).ok
    /\ outcome = "VerificationError"

(***************************************************************************)
(* Key (de)serialization and the dispatch table.                           *)
(*                                                                         *)
(* A call yields [exc, key, dict, called]: the exception raised ("none"    *)
(* when it returned), the Key returned, the caller's dict as the call left *)
(* it, and the classes whose from_dict ran.                                *)
(***************************************************************************)
\* dict.get(k): None for a missing key.
Get(d, k) == IF k \in DOMAIN d THEN d[k] ELSE None

BaseFields == <<"keytype", "scheme", "keyval">>

\* A variant of _from_dict that reads the base fields and leaves them in the dict.
from_dict_base_get(d) ==
    IF \E i \in 1..3 : BaseFields[i] \notin DOMAIN d
    THEN [exc |-> "KeyError", keytype |-> None, scheme |-> None, keyval |-> None, dict |-> d]
    ELSE [exc |-> "none", keytype |-> d["keytype"], scheme |-> d["scheme"],
          keyval |-> d["keyval"], dict |-> d]

\* _key.py:156-167, Key._from_dict: pops keytype, scheme and keyval off the
\* dict in this order; the first missing one raises KeyError.
from_dict_base(d) ==
    IF "keytype" \notin DOMAIN d
    THEN [exc |-> "KeyError", keytype |-> None, scheme |-> None, keyval |-> None, dict |-> d]
    ELSE LET d1 == Without(d, "keytype")
         IN  IF "scheme" \notin DOMAIN d1
             THEN [exc |-> "KeyError", keytype |-> None, scheme |-> None, keyval |-> None,
                   dict |-> d1]
             ELSE LET d2 == Without(d1, "scheme")
                  IN  IF "keyval" \notin DOMAIN d2
                      THEN [exc |-> "KeyError", keytype |-> None, scheme |-> None,
                            keyval |-> None, dict |-> d2]
                      ELSE [exc |-> "none", keytype |-> d["keytype"], scheme |-> d["scheme"],
                            keyval |-> d["keyval"], dict |-> Without(d2, "keyval")]

\* _key.py:209-217, SSlibKey.from_dict.
SSlibKey_from_dict(keyid, d) ==
    LET base == from_dict_base(d)
    IN  IF base.exc # "none"
        THEN [exc |-> base.exc, key |-> Nothing, dict |-> base.dict, called |-> <<"SSlibKey">>]
        ELSE IF base.keyval.t # "dict"      \* '"public" not in keyval' on a non-container
        THEN [exc |-> "TypeError", key |-> Nothing, dict |-> base.dict,
              called |-> <<"SSlibKey">>]
        ELSE IF "public" \notin DOMAIN base.keyval.v \/ base.keyval.v["public"].t # "str"
        THEN [exc |-> "ValueError", key |-> Nothing, dict |-> base.dict,
              called |-> <<"SSlibKey">>]
        ELSE LET made == KeyInit(keyid, base.keytype, base.scheme, base.keyval,
                                 Dict(base.dict))
             IN  [exc |-> made.exc, key |-> made.key, dict |-> base.dict,
                  called |-> <<"SSlibKey">>]

\* _key.py:198-207, SSlibKey.from_securesystemslib_key.
from_securesystemslib_key(d) ==
    IF \E f \in {"keyid", "keytype", "scheme", "keyval"} : f \notin DOMAIN d
    THEN [exc |-> "KeyError", key |-> Nothing, dict |-> d, called |-> <<>>]
    ELSE IF d["keyval"].t # "dict"
    THEN [exc |-> "TypeError", key |-> Nothing, dict |-> d, called |-> <<>>]
    ELSE IF "public" \notin DOMAIN d["keyval"].v
    THEN [exc |-> "KeyError", key |-> Nothing, dict |-> d, called |-> <<>>]
    ELSE LET made == KeyInit(d["keyid"], d["keytype"], d["scheme"],
                             Dict([k \in {"public"} |-> d["keyval"].v["public"]]), None)
         IN  [exc |-> made.exc, key |-> made.key, dict |-> d, called |-> <<>>]

\* Entries of b, then those of u over them: {**b, **u}.
Merge(b, u) == [k \in DOMAIN b \cup DOMAIN u |-> IF k \in DOMAIN u THEN u[k] ELSE b[k]]

\* A variant of _to_dict that emits the base fields only.
to_dict_base_only(self) ==
    [k \in {"keytype", "scheme", "keyval"} |->
        CASE k = "keytype" -> Str(self.keytype)
          [] k = "scheme" -> Str(self.scheme)
          [] OTHER -> Dict(self.keyval)]

\* _key.py:143-154 and 219-220, Key._to_dict, which SSlibKey.to_dict returns.
to_dict(self) ==
    Merge([k \in {"keytype", "scheme", "keyval"} |->
              CASE k = "keytype" -> Str(self.keytype)
                [] k = "scheme" -> Str(self.scheme)
                [] OTHER -> Dict(self.keyval)],
          self.unrecognized_fields)

\* The implementations that can be registered: SSlibKey, and a class of the
\* embedding application, of which only its name is known.
Implementations == {"SSlibKey", "OtherKey"}

\* What a call of impl.from_dict(keyid, d) can yield.  OtherKey.from_dict is
\* foreign code: it returns an object of its class, and may or may not have
\* popped the base fields.
ImplFromDict(impl, keyid, d) ==
    IF impl = "SSlibKey" THEN {SSlibKey_from_dict(keyid, d)}
    ELSE {[exc |-> "none", key |-> [class |-> "OtherKey"], dict |-> dd,
           called |-> <<"OtherKey">>] : dd \in {d, from_dict_base(d).dict}}

\* A variant of Key.from_dict that falls back to SSlibKey for a pair that is
\* not registered.
Key_from_dict_default(registry, keyid, d) ==
    LET pair == <<Get(d, "keytype"), Get(d, "scheme")>>
    IN  IF pair \notin DOMAIN registry
        THEN ImplFromDict("SSlibKey", keyid, d)
        ELSE ImplFromDict(registry[pair], keyid, d)

\* _key.py:111-133, Key.from_dict: the set of results the call can have.
Key_from_dict(registry, keyid, d) ==
    LET pair == <<Get(d, "keytype"), Get(d, "scheme")>>
    IN  IF pair \notin DOMAIN registry
        THEN {[exc |-> "ValueError", key |-> Nothing, dict |-> d, called |-> <<>>]}
        ELSE ImplFromDict(registry[pair], keyid, d)

(***************************************************************************)
(* SpecKey: the dispatch table is filled, a caller builds a key dict and   *)
(* hands it to the deserializers, and serializes the Key it got.           *)
(***************************************************************************)
RsaPssSha256 == <<"rsassa", "pss", "sha256">>

\* The pairs registered: two of the built-in ones and the (None, None) of
\* _key.py:130-131.
RegPairs == {<<Str(<<"rsa">>), Str(RsaPssSha256)>>,
             <<Str(<<"ed25519">>), Str(Ed25519Scheme)>>,
             <<None, None>>}

\* The values tried for each field of a key dict; Nothing is "field absent".
FieldValues(f) ==
    CASE f = "keyid" -> {Nothing, Str(<<"k1">>)}
      [] f = "keytype" -> {Nothing, Str(<<"rsa">>), Str(<<"ed25519">>), PyInt(1)}
      [] f = "scheme" -> {Nothing, Str(RsaPssSha256), Str(Ed25519Scheme)}
      [] f = "keyval" ->
            {Nothing, None, Dict(EmptyDict),
             Dict([k \in {"public"} |-> Str(<<"a", "a">>)]),
             Dict([k \in {"public"} |-> PyInt(1)]),
             Dict([k \in {"public", "private"} |->
                      IF k = "public" THEN Str(<<"a", "a">>) ELSE Str(<<>>)]),
             Dict([k \in {"public", "private"} |->
                      IF k = "public" THEN Str(<<"a", "a">>) ELSE Str(<<"secret">>)])}
      [] f = "custom" -> {Nothing, Str(<<"x">>)}

FieldNames == {"keyid", "keytype", "scheme", "keyval", "custom"}

KeyDicts ==
    {[f \in {g \in FieldNames : choice[g] # Nothing} |-> choice[f]] :
        choice \in {c \in [FieldNames -> UNION {FieldValues(f) : f \in FieldNames}] :
                        \A f \in FieldNames : c[f] \in FieldValues(f)}}

\* The keyid arguments tried: a text, and a value that is no text.
KeyidArgs == {Str(<<"k1">>), None}

\* KEY_FOR_TYPE_AND_SCHEME[(keytype, scheme)] = impl, as securesystemslib's
\* __init__ and the embedding application do.
Register ==
    /\ \E pair \in RegPairs, impl \in Implementations :
        KEY_FOR_TYPE_AND_SCHEME' =
            [p \in DOMAIN KEY_FOR_TYPE_AND_SCHEME \cup {pair} |->
                IF p = pair THEN impl ELSE KEY_FOR_TYPE_AND_SCHEME[p]]
    /\ res' = Nothing
    /\ out' = Nothing
    /\ key' = Nothing
    /\ UNCHANGED <<key_dict, arg, verifyVars, encodeVars, formatVars, threadVars>>

\* The caller builds the dict object this specification follows.
MakeDict ==
    /\ key_dict = Nothing
    /\ \E d \in KeyDicts :
        /\ key_dict' = Dict(d)
        /\ arg' = Dict(d)
    /\ UNCHANGED <<key, res, out, KEY_FOR_TYPE_AND_SCHEME, verifyVars, encodeVars, formatVars, threadVars>>

\* The state after a deserializer call that yielded r.
Deserialized(op, keyid, r) ==
    /\ arg' = key_dict
    /\ key_dict' = Dict(r.dict)
    /\ key' = r.key
    /\ res' = [op |-> op, keyid |-> keyid, exc |-> r.exc, called |-> r.called]
    /\ out' = Nothing
    /\ UNCHANGED <<KEY_FOR_TYPE_AND_SCHEME, verifyVars, encodeVars, formatVars, threadVars>>

\* Key.from_dict(keyid, key_dict)
CallKeyFromDict ==
    /\ key_dict # Nothing
    /\ \E keyid \in KeyidArgs :
        \E r \in Key_from_dict(KEY_FOR_TYPE_AND_SCHEME, keyid, key_dict.v) :
            Deserialized("Key.from_dict", keyid, r)

\* SSlibKey.from_dict(keyid, key_dict)
CallSSlibKeyFromDict ==
    /\ key_dict # Nothing
    /\ \E keyid \in KeyidArgs :
        Deserialized("SSlibKey.from_dict", keyid, SSlibKey_from_dict(keyid, key_dict.v))

\* SSlibKey.from_securesystemslib_key(key_dict)
CallFromSecuresystemslibKey ==
    /\ key_dict # Nothing
    /\ Deserialized("SSlibKey.from_securesystemslib_key", None,
                    from_securesystemslib_key(key_dict.v))

\* An SSlibKey is in hand.
HaveSSlibKey ==
    /\ res # Nothing
    /\ res.exc = "none"
    /\ res.called # <<"OtherKey">>

\* key.to_dict()
ToDict ==
    /\ HaveSSlibKey
    /\ out' = Dict(to_dict(key))
    /\ UNCHANGED <<key, key_dict, arg, res, KEY_FOR_TYPE_AND_SCHEME, verifyVars, encodeVars, formatVars, threadVars>>

InitSpecKey == Init /\ ~CRYPTO_IMPORT_ERROR

NextKey ==
    \/ Register
    \/ MakeDict
    \/ CallKeyFromDict
    \/ CallSSlibKeyFromDict
    \/ CallFromSecuresystemslibKey
    \/ ToDict

SpecKey == InitSpecKey /\ [][NextKey]_vars

(***************************************************************************)
(* Claims about the key model, under SpecKey.                              *)
(***************************************************************************)
\* The last operation was a call of op.
Last(op) == res # Nothing /\ res.op = op

\* C6: Key.from_dict looks up exactly the pair (keytype, scheme) read from the
\* dict, None standing for a missing field.  An absent pair raises ValueError
\* and no implementation's from_dict runs; for a registered pair, (None, None)
\* included, the from_dict of the registered class runs, and no other, and what
\* it yields is what the call yields.
C6_DispatchByPair ==
    Last("Key.from_dict") =>
        LET pair == <<Get(arg.v, "keytype"), Get(arg.v, "scheme")>>
        IN  IF pair \notin DOMAIN KEY_FOR_TYPE_AND_SCHEME
            THEN res.exc = "ValueError" /\ res.called = <<>> /\ key = Nothing
            ELSE /\ res.called = <<KEY_FOR_TYPE_AND_SCHEME[pair]>>
                 /\ KEY_FOR_TYPE_AND_SCHEME[pair] = "SSlibKey" =>
                        LET direct == SSlibKey_from_dict(res.keyid, arg.v)
                        IN  res.exc = direct.exc /\ key = direct.key

C6_Witness ==
    /\ Last("Key.from_dict")
    /\ "keytype" \notin DOMAIN arg.v
    /\ "scheme" \notin DOMAIN arg.v
    /\ <<Str(<<"rsa">>), Str(RsaPssSha256)>> \in DOMAIN KEY_FOR_TYPE_AND_SCHEME
    /\ KEY_FOR_TYPE_AND_SCHEME[<<Str(<<"rsa">>), Str(RsaPssSha256)>>] = "SSlibKey"
    /\ res.called = <<"OtherKey">>

\* A keyval of a public key: "public" is there, "private" is absent or empty.
PublicOnly(keyval) ==
    /\ "public" \in DOMAIN keyval
    /\ "private" \in DOMAIN keyval => keyval["private"] = Str(<<>>)

\* C7: every Key that SSlibKey.from_dict (called directly or through
\* Key.from_dict) or SSlibKey.from_securesystemslib_key returns has a keyval
\* with "public" and with "private" absent or empty, and so has the keyval that
\* to_dict emits for it.
C7_NoPrivateInKey ==
    HaveSSlibKey =>
        /\ PublicOnly(key.keyval)
        /\ out # Nothing => PublicOnly(out.v["keyval"].v)

\* C8: for a dict with text keytype and scheme, a keyval mapping with a text
\* "public" and any other fields, SSlibKey.from_dict(keyid, copy).to_dict() is
\* the dict: every unrecognized field comes back with its value, and keytype,
\* scheme and keyval are not altered.
C8_RoundTrip ==
    (out # Nothing /\ res.called = <<"SSlibKey">>) => out = arg

C8_Witness ==
    /\ out # Nothing
    /\ Last("SSlibKey.from_dict")
    /\ {"custom", "keyid"} \subseteq DOMAIN arg.v
    /\ "private" \in DOMAIN arg.v["keyval"].v
    /\ out.v["custom"] = Str(<<"x">>)

\* The last operation was Key.from_dict or SSlibKey.from_dict, and no from_dict
\* but SSlibKey's has run in it.
FromDictCalled ==
    /\ res # Nothing
    /\ res.op \in {"Key.from_dict", "SSlibKey.from_dict"}
    /\ res.called # <<"OtherKey">>

\* C9, as claimed: after Key.from_dict or SSlibKey.from_dict has returned or
\* failed, the caller's dict holds the fields and values it held before.
C9_ArgumentUnchanged ==
    FromDictCalled => key_dict = arg

\* The base fields that precede the first one missing in d (all three when none
\* is missing).
PoppedFrom(d) ==
    {BaseFields[i] : i \in {j \in 1..3 : \A k \in 1..j : BaseFields[k] \in DOMAIN d}}

\* C9, as amended: after the call the caller's dict holds the fields and values
\* it held before, less those SSlibKey.from_dict has popped: keytype, scheme and
\* keyval, up to the first of them that is missing.  A Key.from_dict that finds
\* the pair unsupported leaves the dict as it was.
C9_OnlyBaseFieldsPopped ==
    FromDictCalled =>
        LET gone == IF res.called = <<>> THEN {} ELSE PoppedFrom(arg.v)
        IN  key_dict.v = [f \in DOMAIN arg.v \ gone |-> arg.v[f]]

C9_Witness ==
    /\ Last("SSlibKey.from_dict")
    /\ res.exc = "KeyError"
    /\ DOMAIN arg.v = {"keytype", "keyval", "custom"}
    /\ DOMAIN key_dict.v = {"keyval", "custom"}

(***************************************************************************)
(* The canonical serializer, formats.py.                                   *)
(*                                                                         *)
(* Text is a sequence of characters.  A list or tuple is                   *)
(* [t |-> "list", v |-> <<values>>]; a mapping keeps its insertion order:  *)
(* [t |-> "dict", v |-> <<item, ...>>] with item = <<key, value>> and no   *)
(* key twice.  _encode_canonical yields [exc, chunks, order]: the          *)
(* exception raised ("none" when it returned), the chunks handed to        *)
(* output_function so far, and, for each mapping it wrote, the keys in the *)
(* order it wrote them.                                                    *)
(***************************************************************************)
Bool(b) == [t |-> "bool", v |-> b]
List(vs) == [t |-> "list", v |-> vs]
Mapping(items) == [t |-> "dict", v |-> items]
Float(repr) == [t |-> "float", v |-> repr]
Bytes(bs) == [t |-> "bytes", v |-> bs]
\* An object of a class the serializer knows nothing of, such as set().
PyObject == [t |-> "object", v |-> 0]

\* The code point of a character, for the characters the model uses.
Ord(c) ==
    CASE c = "\n" -> 10 [] c = " " -> 32 [] c = "\"" -> 34 [] c = "B" -> 66
      [] c = "\\" -> 92 [] c = "a" -> 97 [] c = "b" -> 98

\* a < b for Python text: by code point, a proper prefix first.
RECURSIVE StrLess(_, _)
StrLess(a, b) ==
    IF b = <<>> THEN FALSE
    ELSE IF a = <<>> THEN TRUE
    ELSE IF Head(a) # Head(b) THEN Ord(Head(a)) < Ord(Head(b))
    ELSE StrLess(Tail(a), Tail(b))

\* An escaping that, as JSON encoders do, also writes a newline as backslash, n.
RECURSIVE EscapeAsJson(_)
EscapeAsJson(string) ==
    IF string = <<>> THEN <<>>
    ELSE (CASE Head(string) \in {"\"", "\\"} -> <<"\\", Head(string)>>
            [] Head(string) = "\n" -> <<"\\", "n">>
            [] OTHER -> <<Head(string)>>)
         \o EscapeAsJson(Tail(string))

\* An escaping of the backslash alone: re.sub(r'([\\])', r'\\\1', string)
RECURSIVE EscapeBackslashOnly(_)
EscapeBackslashOnly(string) ==
    IF string = <<>> THEN <<>>
    ELSE (IF Head(string) = "\\" THEN <<"\\", Head(string)>> ELSE <<Head(string)>>)
         \o EscapeBackslashOnly(Tail(string))

\* formats.py:709, re.sub(r'(["\\])', r'\\\1', string)
RECURSIVE Escape(_)
Escape(string) ==
    IF string = <<>> THEN <<>>
    ELSE (IF Head(string) \in {"\"", "\\"} THEN <<"\\", Head(string)>> ELSE <<Head(string)>>)
         \o Escape(Tail(string))

\* formats.py:690-711
canonical_string_encoder(string) == <<"\"">> \o Escape(string) \o <<"\"">>

\* str(n) for an integer n.
DigitChar(d) ==
    CASE d = 0 -> "0" [] d = 1 -> "1" [] d = 2 -> "2" [] d = 3 -> "3" [] d = 4 -> "4"
      [] d = 5 -> "5" [] d = 6 -> "6" [] d = 7 -> "7" [] d = 8 -> "8" [] d = 9 -> "9"

RECURSIVE Digits(_)
Digits(n) == IF n < 10 THEN <<DigitChar(n)>> ELSE Append(Digits(n \div 10), DigitChar(n % 10))

IntToStr(n) == IF n < 0 THEN <<"-">> \o Digits(-n) ELSE Digits(n)

\* The items of a mapping as the loops of formats.py:740-748 take them, without
\* the sorted() of line 739: in insertion order.
UnsortedItems(items) == items

\* formats.py:739, sorted(six.iteritems(object)) for text keys: ascending by key
\* (no two items share a key, so the values are never compared).
RECURSIVE SortedItems(_)
SortedItems(items) ==
    IF items = <<>> THEN <<>>
    ELSE LET least == CHOOSE i \in 1..Len(items) :
                          \A j \in 1..Len(items) :
                              j # i => StrLess(items[i][1].v, items[j][1].v)
         IN  <<items[least]>>
             \o SortedItems([k \in 1..(Len(items) - 1) |->
                                IF k < least THEN items[k] ELSE items[k + 1]])

\* One call of output_function.
Emit(chunk) ==
    [exc |-> "none", chunks |-> <<chunk>>, order |-> <<>>, named |-> Nothing, depth |-> 0]

\* a, and then b unless a raised.
Then(a, b) ==
    IF a.exc # "none" THEN a
    ELSE [exc |-> b.exc, chunks |-> a.chunks \o b.chunks, order |-> a.order \o b.order,
          named |-> b.named, depth |-> IF a.depth > b.depth THEN a.depth ELSE b.depth]

\* One activation of _encode_canonical around what its body did.
Activation(body) == [body EXCEPT !.depth = @ + 1]

RECURSIVE encode(_), EncodeElements(_), EncodeItems(_)

\* formats.py:731-734: the elements of a non-empty sequence, "," between them.
EncodeElements(vs) ==
    IF Len(vs) = 1 THEN encode(vs[1])
    ELSE Then(encode(vs[1]), Then(Emit(<<",">>), EncodeElements(Tail(vs))))

\* formats.py:741-743 and 746-748: one key/value pair.
EncodeItem(item) ==
    Then(Emit(canonical_string_encoder(item[1].v)), Then(Emit(<<":">>), encode(item[2])))

\* formats.py:740-748: the sorted items of a non-empty mapping, "," between them.
EncodeItems(items) ==
    IF Len(items) = 1 THEN EncodeItem(items[1])
    ELSE Then(EncodeItem(items[1]), Then(Emit(<<",">>), EncodeItems(Tail(items))))

\* formats.py:714-751, _encode_canonical
encode(v) ==
    Activation(
    CASE v.t = "str" -> Emit(canonical_string_encoder(v.v))
      [] v.t = "bool" -> Emit(IF v.v THEN <<"t", "r", "u", "e">>
                                     ELSE <<"f", "a", "l", "s", "e">>)
      [] v.t = "None" -> Emit(<<"n", "u", "l", "l">>)
      [] v.t = "int" -> Emit(IntToStr(v.v))
      [] v.t = "list" ->
            IF v.v = <<>> THEN Then(Emit(<<"[">>), Emit(<<"]">>))
            ELSE Then(Emit(<<"[">>), Then(EncodeElements(v.v), Emit(<<"]">>)))
      [] v.t = "dict" ->
            IF v.v = <<>> THEN Then(Emit(<<"{">>), Emit(<<"}">>))
            ELSE IF \E i \in 1..Len(v.v) : v.v[i][1].t # "str"
            THEN \* sorted() of keys of unlike types, or re.sub on a key that is no text
                 [exc |-> "TypeError", chunks |-> <<<<"{">>>>, order |-> <<>>,
                  named |-> Nothing, depth |-> 0]
            ELSE LET items == SortedItems(v.v)
                 IN  Then([exc |-> "none", chunks |-> <<<<"{">>>>,
                           order |-> <<[i \in 1..Len(items) |-> items[i][1].v]>>,
                           named |-> Nothing, depth |-> 0],
                          Then(EncodeItems(items), Emit(<<"}">>)))
      [] OTHER -> \* 'I cannot encode ' + repr(object)
                  [exc |-> "FormatError", chunks |-> <<>>, order |-> <<>>,
                   named |-> v, depth |-> 0])

\* ','.join(chunks)
RECURSIVE JoinWithComma(_)
JoinWithComma(chunks) ==
    IF chunks = <<>> THEN <<>>
    ELSE IF Len(chunks) = 1 THEN Head(chunks)
    ELSE Head(chunks) \o <<",">> \o JoinWithComma(Tail(chunks))

\* ''.join(chunks)
RECURSIVE Join(_)
Join(chunks) == IF chunks = <<>> THEN <<>> ELSE Head(chunks) \o Join(Tail(chunks))

\* An encode_canonical that, when _encode_canonical raises, returns what was
\* written up to there.
encode_canonical_partial(v) ==
    LET run == encode(v)
    IN  [exc |-> "none", value |-> Join(run.chunks), chunks |-> run.chunks,
         order |-> run.order, named |-> run.named, depth |-> run.depth]

\* formats.py:754-822, encode_canonical(object) with no output_function: the
\* chunks are appended to a list, and joined and returned at the end.  A
\* TypeError or FormatError of _encode_canonical is raised again as a
\* FormatError whose message holds that exception's message.
encode_canonical(v) ==
    LET run == encode(v)
    IN  IF run.exc # "none"
        THEN [exc |-> "FormatError", value |-> <<>>, chunks |-> run.chunks, order |-> run.order,
              named |-> run.named, depth |-> run.depth]
        ELSE [exc |-> "none", value |-> Join(run.chunks), chunks |-> run.chunks,
              order |-> run.order, named |-> run.named, depth |-> run.depth]

\* formats.py:754-822, encode_canonical(object, output_function) with a function
\* supplied: each chunk is handed to it as it is written (sink is what it has
\* been handed), 'result' stays None and nothing is returned.
encode_canonical_to(v, sink) ==
    LET run == encode(v)
    IN  [exc |-> IF run.exc # "none" THEN "FormatError" ELSE "none",
         value |-> None, sink |-> sink \o run.chunks, named |-> run.named]

(***************************************************************************)
(* The values tried: a caller starts from a scalar or an empty container   *)
(* and builds on it (list.append, d[k] = x, nesting in a new list or       *)
(* mapping) up to MaxNodes nodes.                                          *)
(***************************************************************************)
Texts == {<<>>, <<"a", " ">>, <<"\"", "\\">>, <<"\n">>}
Scalars == {Str(s) : s \in Texts} \cup {PyInt(n) : n \in {-1, 0, 12}}
           \cup {Bool(TRUE), Bool(FALSE), None}
           \cup {Float(<<"1", ".", "5">>), Bytes(<<97, 98>>), PyObject}
Leaves == {Str(<<"a", " ">>), PyInt(12)}
MappingKeys == {<<"a">>, <<"a", "b">>, <<"B">>, <<"\"", "\n">>}

\* The number of scalars, sequences and mappings in v.
RECURSIVE Nodes(_), NodesOfAll(_)
NodesOfAll(vs) == IF vs = <<>> THEN 0 ELSE Nodes(Head(vs)) + NodesOfAll(Tail(vs))
Nodes(v) ==
    CASE v.t = "list" -> 1 + NodesOfAll(v.v)
      [] v.t = "dict" -> 1 + NodesOfAll([i \in 1..Len(v.v) |-> v.v[i][2]])
      [] OTHER -> 1

\* The sequences that take their i-th element from sets[i].
RECURSIVE Product(_)
Product(sets) ==
    IF sets = <<>> THEN {<<>>}
    ELSE {<<x>> \o rest : x \in Head(sets), rest \in Product(Tail(sets))}

\* The values that hold what v holds, with the items of each mapping, at any
\* depth, inserted in any order.
RECURSIVE Reorderings(_)
Reorderings(v) ==
    CASE v.t = "list" ->
            {List(vs) : vs \in Product([i \in 1..Len(v.v) |-> Reorderings(v.v[i])])}
      [] v.t = "dict" ->
            {Mapping([i \in 1..Len(v.v) |-> <<v.v[p[i]][1], vs[p[i]]>>]) :
                p \in Permutations(1..Len(v.v)),
                vs \in Product([i \in 1..Len(v.v) |-> Reorderings(v.v[i][2])])}
      [] OTHER -> {v}

(***************************************************************************)
(* SpecEncode: a value is handed to encode_canonical, and so is the same   *)
(* value with its mappings built in another insertion order.               *)
(***************************************************************************)
InitSpecEncode ==
    /\ key = Nothing
    /\ InitVerify
    /\ ~CRYPTO_IMPORT_ERROR
    /\ InitKey
    /\ object \in Scalars \cup {List(<<>>), Mapping(<<>>)}
    /\ other = Nothing
    /\ result = Nothing
    /\ result2 = Nothing
    /\ streamed = Nothing
    /\ InitFormats
    /\ InitThreads

\* The caller is still building the value.
Building == result = Nothing /\ other = Nothing /\ Nodes(object) < MaxNodes

\* object = [object]
NestInList ==
    /\ Building
    /\ object' = List(<<object>>)
    /\ UNCHANGED <<other, result, result2, streamed, key, verifyVars, keyVars, formatVars, threadVars>>

\* object = {k: object}
NestInMapping ==
    /\ Building
    /\ \E k \in MappingKeys : object' = Mapping(<<<<Str(k), object>>>>)
    /\ UNCHANGED <<other, result, result2, streamed, key, verifyVars, keyVars, formatVars, threadVars>>

\* object.append(x)
AppendElement ==
    /\ Building
    /\ object.t = "list"
    /\ \E x \in Leaves : object' = List(Append(object.v, x))
    /\ UNCHANGED <<other, result, result2, streamed, key, verifyVars, keyVars, formatVars, threadVars>>

\* object[k] = x, for a key k that object does not have
InsertItem ==
    /\ Building
    /\ object.t = "dict"
    /\ \E k \in MappingKeys, x \in Leaves :
        /\ \A i \in 1..Len(object.v) : object.v[i][1] # Str(k)
        /\ object' = Mapping(Append(object.v, <<Str(k), x>>))
    /\ UNCHANGED <<other, result, result2, streamed, key, verifyVars, keyVars, formatVars, threadVars>>

\* result = encode_canonical(object)
EncodeCanonical ==
    /\ result = Nothing
    /\ result' = encode_canonical(object)
    /\ UNCHANGED <<object, other, result2, streamed, key, verifyVars, keyVars, formatVars, threadVars>>

\* chunks = []; encode_canonical(object, chunks.append)
EncodeStreaming ==
    /\ result # Nothing
    /\ streamed = Nothing
    /\ streamed' = encode_canonical_to(object, <<>>)
    /\ UNCHANGED <<object, other, result, result2, key, verifyVars, keyVars, formatVars, threadVars>>

\* result2 = encode_canonical(other), other holding what object holds
EncodeReordered ==
    /\ streamed # Nothing
    /\ other = Nothing
    /\ \E w \in Reorderings(object) :
        /\ other' = w
        /\ result2' = encode_canonical(w)
    /\ UNCHANGED <<object, result, streamed, key, verifyVars, keyVars, formatVars, threadVars>>

NextEncode ==
    \/ NestInList
    \/ NestInMapping
    \/ AppendElement
    \/ InsertItem
    \/ EncodeCanonical
    \/ EncodeStreaming
    \/ EncodeReordered

SpecEncode == InitSpecEncode /\ [][NextEncode]_vars

(***************************************************************************)
(* Claims about encode_canonical, under SpecEncode.                        *)
(***************************************************************************)
Whitespace == {" ", "\n", "\t", "\r"}

\* The keys, as written, go up strictly.
Ascending(keys) == \A i \in 1..(Len(keys) - 1) : StrLess(keys[i], keys[i + 1])

\* A chunk handed to output_function is either an encoded string (it starts
\* with a double quote) or holds no whitespace.
NoWhitespaceOutsideStrings(chunks) ==
    \A i \in 1..Len(chunks) :
        \/ Head(chunks[i]) = "\""
        \/ \A j \in 1..Len(chunks[i]) : chunks[i][j] \notin Whitespace

\* C10: two values that hold the same key/value pairs in mappings built in
\* different insertion orders, at any depth, encode to the same output; in every
\* output the keys of each mapping are written in ascending order, and no
\* whitespace is written outside encoded strings.
C10_InsertionOrderIndependent ==
    /\ (result # Nothing /\ result2 # Nothing) => result2 = result
    /\ result # Nothing =>
        /\ \A i \in 1..Len(result.order) : Ascending(result.order[i])
        /\ NoWhitespaceOutsideStrings(result.chunks)
        /\ result.exc = "none" => result.value = Join(result.chunks)

C10_Witness ==
    /\ result # Nothing
    /\ result2 # Nothing
    /\ other # object
    /\ object.t = "list"
    /\ Len(object.v) = 1
    /\ object.v[1].t = "dict"
    /\ Len(object.v[1].v) = 2
    /\ object.v[1].v[1] = <<Str(<<"a", "b">>), Str(<<"a", " ">>)>>
    /\ object.v[1].v[2] = <<Str(<<"B">>), PyInt(12)>>
    /\ result.exc = "none"
    /\ result.value = <<"[", "{", "\"", "B", "\"", ":", "1", "2", ",",
                        "\"", "a", "b", "\"", ":", "\"", "a", " ", "\"", "}", "]">>
    /\ result2.value = result.value

\* The quotes and backslashes among the first n characters of s.
Specials(s, n) == Cardinality({i \in 1..n : s[i] \in {"\"", "\\"}})

\* o is: a double quote, the characters of s in order, each quote and each
\* backslash with one backslash before it and every other character as it is,
\* and a double quote.
MinimallyEscaped(s, o) ==
    /\ Len(o) = Len(s) + Specials(s, Len(s)) + 2
    /\ o[1] = "\""
    /\ o[Len(o)] = "\""
    /\ \A i \in 1..Len(s) :
          LET p == 1 + i + Specials(s, i - 1)
          IN  IF s[i] \in {"\"", "\\"}
              THEN o[p] = "\\" /\ o[p + 1] = s[i]
              ELSE o[p] = s[i]

\* v is neither a sequence nor a mapping: it is written as one chunk.
IsScalar(v) == v.t \notin {"list", "dict"}

\* C11: a text string is written as a double quote, the string with each double
\* quote and each backslash preceded by exactly one backslash and every other
\* character (control characters and newlines too) copied unchanged, and a
\* double quote: as a value, as an element of a sequence and as a key of a
\* mapping.
C11_MinimalEscaping ==
    (result # Nothing /\ result.exc = "none") =>
        /\ object.t = "str" =>
              /\ MinimallyEscaped(object.v, result.value)
              /\ result.chunks = <<result.value>>
        /\ (object.t = "list" /\ \A i \in 1..Len(object.v) : IsScalar(object.v[i])) =>
              \A i \in 1..Len(object.v) :
                  object.v[i].t = "str" =>
                      MinimallyEscaped(object.v[i].v, result.chunks[2 * i])
        /\ (object.t = "dict" /\ \A i \in 1..Len(object.v) : IsScalar(object.v[i][2])) =>
              \A i \in 1..Len(object.v) :
                  MinimallyEscaped(result.order[1][i], result.chunks[4 * i - 2])

C11_Witness ==
    /\ result # Nothing
    /\ object = Mapping(<<<<Str(<<"\"", "\n">>), Str(<<"\"", "\\">>)>>>>)
    /\ result.value = <<"{", "\"", "\\", "\"", "\n", "\"", ":",
                        "\"", "\\", "\"", "\\", "\\", "\"", "}">>

\* The chunks one after another, put together from the left.
RECURSIVE Concatenation(_)
Concatenation(chunks) ==
    IF chunks = <<>> THEN <<>>
    ELSE Concatenation(SubSeq(chunks, 1, Len(chunks) - 1)) \o chunks[Len(chunks)]

\* C12: for a value that encode_canonical(object) encodes, the chunks handed in
\* call order to a supplied output_function, concatenated, are the string that
\* encode_canonical(object) returns; the call with the function returns nothing.
C12_StreamedEqualsReturned ==
    (result # Nothing /\ streamed # Nothing /\ result.exc = "none") =>
        /\ streamed.exc = "none"
        /\ streamed.value = None
        /\ Concatenation(streamed.sink) = result.value

C12_Witness ==
    /\ result # Nothing
    /\ streamed # Nothing
    /\ object = List(<<Mapping(<<<<Str(<<"a">>), None>>>>), PyInt(12)>>)
    /\ streamed.sink = <<<<"[">>, <<"{">>, <<"\"", "a", "\"">>, <<":">>, <<"n", "u", "l", "l">>,
                         <<"}">>, <<",">>, <<"1", "2">>, <<"]">>>>
    /\ result.value = <<"[", "{", "\"", "a", "\"", ":", "n", "u", "l", "l", "}", ",",
                        "1", "2", "]">>

\* The values v holds, at any depth, v among them.
RECURSIVE Parts(_)
Parts(v) ==
    CASE v.t = "list" -> {v} \cup UNION {Parts(v.v[i]) : i \in 1..Len(v.v)}
      [] v.t = "dict" -> {v} \cup UNION {Parts(v.v[i][2]) : i \in 1..Len(v.v)}
      [] OTHER -> {v}

\* A float, or an object of a type outside the Value model.
OutsideValueModel(v) == v.t \in {"float", "object"}

\* The last encode_canonical(object) was given a value that is, or holds at some
\* depth, a float or an object of a type outside the Value model.
GivenUnencodable == result # Nothing /\ \E x \in Parts(object) : OutsideValueModel(x)

\* C13, as claimed: encode_canonical on a value that is, or holds at any depth,
\* a float or a type outside the Value model fails with an EncodingError, a kind
\* other than FormatError, whose message names the offending value, and returns
\* no output.
C13_FailsWithEncodingError ==
    GivenUnencodable =>
        /\ result.exc = "EncodingError"
        /\ result.named \in Parts(object)
        /\ OutsideValueModel(result.named)
        /\ result.value = <<>>

\* C13, as amended: such a call fails with FormatError, the kind used for schema
\* mismatches too; the message names the first value of the object met in
\* writing order that _encode_canonical has no branch for; no output is
\* returned, and a call with an output_function fails the same way.
C13_FailsWithFormatError ==
    GivenUnencodable =>
        /\ result.exc = "FormatError"
        /\ result.named \in Parts(object)
        /\ result.named.t \notin {"str", "bool", "None", "int", "list", "dict"}
        /\ result.value = <<>>
        /\ streamed # Nothing =>
              /\ streamed.exc = "FormatError"
              /\ streamed.value = None
              /\ streamed.named = result.named

C13_Witness ==
    /\ GivenUnencodable
    /\ streamed # Nothing
    /\ object = Mapping(<<<<Str(<<"a">>), List(<<Float(<<"1", ".", "5">>)>>)>>,
                          <<Str(<<"B">>), PyInt(12)>>>>)
    /\ result.exc = "FormatError"
    /\ result.named = Float(<<"1", ".", "5">>)
    /\ streamed.sink = <<<<"{">>, <<"\"", "B", "\"">>, <<":">>, <<"1", "2">>, <<",">>,
                         <<"\"", "a", "\"">>, <<":">>, <<"[">>>>

\* v is built from null, booleans, integers, text strings, byte strings,
\* sequences and mappings: a Value that holds no float.
InValueModelWithoutFloats(v) ==
    \A x \in Parts(v) : x.t \in {"None", "bool", "int", "str", "bytes", "list", "dict"}

\* C14: for every value built from null, booleans, integers, text strings, byte
\* strings, sequences of such values and text-keyed mappings of such values,
\* encode_canonical returns an encoding and does not fail.
C14_TotalOverValueModel ==
    (result # Nothing /\ InValueModelWithoutFloats(object)) => result.exc = "none"

\* The deepest nesting of _encode_canonical activations reached while v is
\* written: 1 for a call that calls itself no further.
CallDepth(v) == encode(v).depth

\* C20: the depth of nested _encode_canonical activations does not grow with the
\* nesting depth of the value: putting the value inside one more sequence or
\* mapping does not deepen the calls that write it.
C20_BoundedCallDepth ==
    [][(NestInList \/ NestInMapping) => CallDepth(object') <= CallDepth(object)]_vars

(***************************************************************************)
(* The schemas of formats.py and the matcher they are handed to.           *)
(*                                                                         *)
(* A schema is a record whose field k names its kind (the class of         *)
(* securesystemslib.schema it is an instance of) and whose other fields    *)
(* are the arguments it was constructed with.  Where a schema is matched,  *)
(* a dict is Dict(d) with d a function from field names; an integer is     *)
(* PyLong(n div 86400, n mod 86400), so that integers beyond 2^31 - 1 can  *)
(* be held and compared; the text a regular expression is matched against  *)
(* is a sequence of characters.                                            *)
(***************************************************************************)
PyLong(days, seconds) == [t |-> "int", v |-> <<days, seconds>>]

\* The integer n, 0 <= n < 2^31, in that form.
LongOf(n) == <<n \div 86400, n % 86400>>

\* a <= b for two integers in that form.
LongLeq(a, b) == a[1] < b[1] \/ (a[1] = b[1] /\ a[2] <= b[2])

String(string) == [k |-> "String", string |-> string]
AnyString == [k |-> "AnyString"]
Boolean == [k |-> "Boolean"]
\* schema.Any
AnyValue == [k |-> "Any"]
\* lo and hi are integers in the form of LongOf, or <<>> for a bound not given.
Integer(lo, hi) == [k |-> "Integer", lo |-> lo, hi |-> hi]
RegularExpression(pattern) == [k |-> "RegularExpression", pattern |-> pattern]
ListOf(schema) == [k |-> "ListOf", schema |-> schema]
DictOf(key_schema, value_schema) ==
    [k |-> "DictOf", key_schema |-> key_schema, value_schema |-> value_schema]
\* fields is the sequence of <<name, schema>> the Object was constructed with.
Object(fields) == [k |-> "Object", fields |-> fields]
Optional(schema) == [k |-> "Optional", schema |-> schema]
OneOf(alternatives) == [k |-> "OneOf", alternatives |-> alternatives]

DecimalDigits == {"0", "1", "2", "3", "4", "5", "6", "7", "8", "9"}

\* The whole of text matches the pattern, for the patterns formats.py uses here.
RegexMatches(pattern, text) ==
    CASE pattern = "[a-fA-F0-9]+" ->
            Len(text) >= 1 /\ \A i \in 1..Len(text) : text[i] \in HexDigits
      [] pattern = "\\d{4}-\\d{2}-\\d{2}T\\d{2}:\\d{2}:\\d{2}Z" ->
            /\ Len(text) = 20
            /\ \A i \in 1..20 :
                  CASE i \in {5, 8} -> text[i] = "-"
                    [] i = 11 -> text[i] = "T"
                    [] i \in {14, 17} -> text[i] = ":"
                    [] i = 20 -> text[i] = "Z"
                    [] OTHER -> text[i] \in DecimalDigits

RECURSIVE Matches(_, _)

\* Object: the value is a mapping, every field that is not Optional is there,
\* and every field that is there matches its schema; other keys are not looked at.
ObjectMatches(fields, v) ==
    /\ v.t = "dict"
    /\ \A i \in 1..Len(fields) :
          IF fields[i][1] \in DOMAIN v.v
          THEN Matches(fields[i][2], v.v[fields[i][1]])
          ELSE fields[i][2].k = "Optional"

\* schema.matches(v)
Matches(schema, v) ==
    CASE schema.k = "Any" -> TRUE
      [] schema.k = "String" -> v = Str(schema.string)
      [] schema.k = "AnyString" -> v.t = "str"
      [] schema.k = "Boolean" -> v.t = "bool"
      [] schema.k = "Integer" ->
            /\ v.t = "int"
            /\ schema.lo # <<>> => LongLeq(schema.lo, v.v)
            /\ schema.hi # <<>> => LongLeq(v.v, schema.hi)
      [] schema.k = "RegularExpression" ->
            v.t = "str" /\ RegexMatches(schema.pattern, v.v)
      [] schema.k = "ListOf" ->
            v.t = "list" /\ \A i \in 1..Len(v.v) : Matches(schema.schema, v.v[i])
      [] schema.k = "DictOf" ->  \* a key is held whole, as a text of one piece
            /\ v.t = "dict"
            /\ \A name \in DOMAIN v.v :
                  /\ Matches(schema.key_schema, Str(<<name>>))
                  /\ Matches(schema.value_schema, v.v[name])
      [] schema.k = "Object" -> ObjectMatches(schema.fields, v)
      [] schema.k = "Optional" -> Matches(schema.schema, v)
      [] schema.k = "OneOf" ->
            \E i \in 1..Len(schema.alternatives) : Matches(schema.alternatives[i], v)

\* schema.check_match(v): FormatError unless the schema matches.
check_match(schema, v) == IF Matches(schema, v) THEN "none" ELSE "FormatError"

(***************************************************************************)
(* formats.py: the schemas of role metadata and of signatures.             *)
(***************************************************************************)
ISO8601_DATETIME_SCHEMA == RegularExpression("\\d{4}-\\d{2}-\\d{2}T\\d{2}:\\d{2}:\\d{2}Z")
UNIX_TIMESTAMP_SCHEMA == Integer(LongOf(0), LongOf(2147483647))
HASH_SCHEMA == RegularExpression("[a-fA-F0-9]+")
HASHDICT_SCHEMA == DictOf(AnyString, HASH_SCHEMA)
HEX_SCHEMA == RegularExpression("[a-fA-F0-9]+")
KEYID_SCHEMA == HASH_SCHEMA
KEYIDS_SCHEMA == ListOf(KEYID_SCHEMA)
SCHEME_SCHEMA == AnyString
RELPATH_SCHEMA == AnyString
RELPATHS_SCHEMA == ListOf(RELPATH_SCHEMA)
URL_SCHEMA == AnyString
METADATAVERSION_SCHEMA == Integer(LongOf(0), <<>>)
LENGTH_SCHEMA == Integer(LongOf(0), <<>>)
BOOLEAN_SCHEMA == Boolean
THRESHOLD_SCHEMA == Integer(LongOf(1), <<>>)
ROLENAME_SCHEMA == AnyString

KEYVAL_SCHEMA ==
    Object(<<<<"public", AnyString>>, <<"private", Optional(AnyString)>>>>)

KEY_SCHEMA ==
    Object(<<<<"keytype", AnyString>>, <<"scheme", SCHEME_SCHEMA>>, <<"keyval", KEYVAL_SCHEMA>>,
             <<"expires", Optional(ISO8601_DATETIME_SCHEMA)>>>>)

HASHALGORITHMS_SCHEMA ==
    ListOf(OneOf(<<String(<<"md5">>), String(<<"sha1">>), String(<<"sha224">>),
                   String(<<"sha256">>), String(<<"sha384">>), String(<<"sha512">>)>>))

PUBLIC_KEYVAL_SCHEMA ==
    Object(<<<<"public", AnyString>>, <<"private", Optional(String(<<>>))>>>>)

PUBLIC_KEY_SCHEMA ==
    Object(<<<<"keytype", AnyString>>,
             <<"keyid_hash_algorithms", Optional(HASHALGORITHMS_SCHEMA)>>,
             <<"keyval", PUBLIC_KEYVAL_SCHEMA>>,
             <<"expires", Optional(ISO8601_DATETIME_SCHEMA)>>>>)

FILEINFO_SCHEMA ==
    Object(<<<<"length", LENGTH_SCHEMA>>, <<"hashes", HASHDICT_SCHEMA>>,
             <<"version", Optional(METADATAVERSION_SCHEMA)>>,
             <<"custom", Optional(Object(<<>>))>>>>)

VERSIONINFO_SCHEMA == Object(<<<<"version", METADATAVERSION_SCHEMA>>>>)
VERSIONDICT_SCHEMA == DictOf(RELPATH_SCHEMA, VERSIONINFO_SCHEMA)
FILEDICT_SCHEMA == DictOf(RELPATH_SCHEMA, FILEINFO_SCHEMA)

\* A SIGNATURE_SCHEMA that does not insist on sig.
SIGNATURE_SCHEMA_sig_optional ==
    Object(<<<<"keyid", KEYID_SCHEMA>>, <<"sig", Optional(HEX_SCHEMA)>>>>)

SIGNATURE_SCHEMA == Object(<<<<"keyid", KEYID_SCHEMA>>, <<"sig", HEX_SCHEMA>>>>)

KEYDICT_SCHEMA == DictOf(KEYID_SCHEMA, KEY_SCHEMA)
PATH_HASH_PREFIX_SCHEMA == HEX_SCHEMA
PATH_HASH_PREFIXES_SCHEMA == ListOf(PATH_HASH_PREFIX_SCHEMA)

ROLE_SCHEMA ==
    Object(<<<<"name", Optional(ROLENAME_SCHEMA)>>, <<"keyids", KEYIDS_SCHEMA>>,
             <<"threshold", THRESHOLD_SCHEMA>>, <<"backtrack", Optional(BOOLEAN_SCHEMA)>>,
             <<"paths", Optional(RELPATHS_SCHEMA)>>,
             <<"path_hash_prefixes", Optional(PATH_HASH_PREFIXES_SCHEMA)>>>>)

ROLEDICT_SCHEMA == DictOf(ROLENAME_SCHEMA, ROLE_SCHEMA)
ROLELIST_SCHEMA == ListOf(ROLE_SCHEMA)
DELEGATIONS_SCHEMA == Object(<<<<"keys", KEYDICT_SCHEMA>>, <<"roles", ROLELIST_SCHEMA>>>>)

ROOT_SCHEMA ==
    Object(<<<<"_type", String(<<"root">>)>>, <<"version", METADATAVERSION_SCHEMA>>,
             <<"consistent_snapshot", BOOLEAN_SCHEMA>>, <<"expires", ISO8601_DATETIME_SCHEMA>>,
             <<"keys", KEYDICT_SCHEMA>>, <<"roles", ROLEDICT_SCHEMA>>>>)

TARGETS_SCHEMA ==
    Object(<<<<"_type", String(<<"targets">>)>>, <<"version", METADATAVERSION_SCHEMA>>,
             <<"expires", ISO8601_DATETIME_SCHEMA>>, <<"targets", FILEDICT_SCHEMA>>,
             <<"delegations", Optional(DELEGATIONS_SCHEMA)>>>>)

SNAPSHOT_SCHEMA ==
    Object(<<<<"_type", String(<<"snapshot">>)>>, <<"version", METADATAVERSION_SCHEMA>>,
             <<"expires", ISO8601_DATETIME_SCHEMA>>, <<"meta", VERSIONDICT_SCHEMA>>>>)

TIMESTAMP_SCHEMA ==
    Object(<<<<"_type", String(<<"timestamp">>)>>, <<"version", METADATAVERSION_SCHEMA>>,
             <<"expires", ISO8601_DATETIME_SCHEMA>>, <<"meta", FILEDICT_SCHEMA>>>>)

MIRROR_SCHEMA ==
    Object(<<<<"url_prefix", URL_SCHEMA>>, <<"metadata_path", RELPATH_SCHEMA>>,
             <<"targets_path", RELPATH_SCHEMA>>, <<"confined_target_dirs", RELPATHS_SCHEMA>>,
             <<"custom", Optional(Object(<<>>))>>>>)

ANYROLE_SCHEMA ==
    OneOf(<<ROOT_SCHEMA, TARGETS_SCHEMA, SNAPSHOT_SCHEMA, TIMESTAMP_SCHEMA, MIRROR_SCHEMA>>)

\* The schemas a candidate is handed to, by name.
SchemaNames ==
    {"ANYROLE_SCHEMA", "SIGNATURE_SCHEMA", "MIRROR_SCHEMA", "PUBLIC_KEY_SCHEMA", "KEY_SCHEMA"}

SchemaNamed(name) ==
    CASE name = "ANYROLE_SCHEMA" -> ANYROLE_SCHEMA
      [] name = "SIGNATURE_SCHEMA" -> SIGNATURE_SCHEMA
      [] name = "MIRROR_SCHEMA" -> MIRROR_SCHEMA
      [] name = "PUBLIC_KEY_SCHEMA" -> PUBLIC_KEY_SCHEMA
      [] name = "KEY_SCHEMA" -> KEY_SCHEMA

(***************************************************************************)
(* The values tried: a caller starts from an object of one of the shapes   *)
(* (or from an empty dict) and sets or deletes up to MaxEdits fields.      *)
(***************************************************************************)
\* Most fields set or deleted in a candidate.
MaxEdits == 2

ExpiresText ==
    <<"2", "0", "3", "0", "-", "0", "1", "-", "0", "1", "T",
      "0", "0", ":", "0", "0", ":", "0", "0", "Z">>

RoleFields(type) ==
    ("_type" :> Str(<<type>>)) @@ ("version" :> PyLong(0, 1))
        @@ ("expires" :> Str(ExpiresText))

\* A keyval with the public portion and, unless private is Nothing, that
\* private portion.
KeyvalObject(private) ==
    IF private = Nothing
    THEN Dict("public" :> Str(<<"P", "E", "M">>))
    ELSE Dict(("public" :> Str(<<"P", "E", "M">>)) @@ ("private" :> private))

KeyObject ==
    Dict(("keytype" :> Str(<<"rsa">>)) @@ ("scheme" :> Str(RsaPssSha256))
         @@ ("keyval" :> KeyvalObject(Nothing)))

MirrorObject ==
    Dict(("url_prefix" :> Str(<<"http://m">>)) @@ ("metadata_path" :> Str(<<"md">>))
         @@ ("targets_path" :> Str(<<"tg">>))
         @@ ("confined_target_dirs" :> List(<<Str(<<>>)>>)))

Templates ==
    { Dict(RoleFields("root") @@ ("consistent_snapshot" :> Bool(FALSE))
               @@ ("keys" :> Dict(EmptyDict)) @@ ("roles" :> Dict(EmptyDict))),
      Dict(RoleFields("targets") @@ ("targets" :> Dict(EmptyDict))),
      Dict(RoleFields("snapshot") @@ ("meta" :> Dict(EmptyDict))),
      Dict(RoleFields("timestamp") @@ ("meta" :> Dict(EmptyDict))),
      MirrorObject,
      Dict(("keyid" :> Str(<<"a", "1">>)) @@ ("sig" :> Str(<<"a", "b">>))),
      KeyObject,
      Dict(EmptyDict) }

\* The <<field, value>> a caller may set.
FieldSettings ==
    {<<"_type", Str(<<type>>)>> : type \in {"root", "targets", "snapshot", "timestamp"}}
    \cup {<<"version", x>> : x \in {PyLong(0, 1), Str(<<"1">>)}}
    \cup {<<"meta", Dict(EmptyDict)>>, <<"custom", Dict(EmptyDict)>>, <<"custom", Str(<<"z">>)>>}
    \cup {<<"url_prefix", x>> : x \in {Str(<<"http://m">>), None}}
    \cup {<<"keyid", x>> : x \in {Str(<<"a", "1">>), None}}
    \cup {<<"sig", x>> : x \in {Str(<<"a", "b">>), Str(<<"z", "z">>), Str(<<>>)}}
    \cup {<<"extra", Str(<<"z">>)>>}
    \cup {<<"keyval", KeyvalObject(private)>> :
              private \in {Nothing, Str(<<>>), Str(<<"K">>), None}}
    \cup {<<"keyval", Dict("private" :> Str(<<>>))>>}
    \cup {<<"scheme", x>> : x \in {Str(RsaPssSha256), None}}
    \cup {<<"keyid_hash_algorithms", List(<<Str(<<"sha256">>)>>)>>}

Editing == matched = Nothing /\ helper = Nothing /\ edits < MaxEdits

\* candidate[name] = x
SetField ==
    /\ Editing
    /\ \E setting \in FieldSettings :
          candidate' = Dict([name \in DOMAIN candidate.v \cup {setting[1]} |->
                                IF name = setting[1] THEN setting[2] ELSE candidate.v[name]])
    /\ edits' = edits + 1
    /\ UNCHANGED <<matched, helper, key, verifyVars, keyVars, encodeVars, threadVars>>

\* del candidate[name]
DelField ==
    /\ Editing
    /\ \E name \in DOMAIN candidate.v : candidate' = Dict(Without(candidate.v, name))
    /\ edits' = edits + 1
    /\ UNCHANGED <<matched, helper, key, verifyVars, keyVars, encodeVars, threadVars>>

\* schema.matches(candidate) and schema.check_match(candidate)
CheckMatch ==
    /\ matched = Nothing
    /\ helper = Nothing
    /\ \E name \in SchemaNames :
          matched' = [schema |-> name,
                      matches |-> Matches(SchemaNamed(name), candidate),
                      exc |-> check_match(SchemaNamed(name), candidate)]
    /\ UNCHANGED <<candidate, edits, helper, key, verifyVars, keyVars, encodeVars, threadVars>>

(***************************************************************************)
(* formats.py: the format helpers.                                         *)
(***************************************************************************)
\* time.gmtime(n) for n = 86400 * days + seconds, 0 <= seconds < 86400, and
\* datetime.datetime(*struct_time[:6]): the proleptic Gregorian date of that day
\* and the time of day, in UTC.
gmtime(days, seconds) ==
    LET z == days + 719468
        era == z \div 146097
        doe == z - era * 146097
        yoe == (doe - doe \div 1460 + doe \div 36524 - doe \div 146096) \div 365
        doy == doe - (365 * yoe + yoe \div 4 - yoe \div 100)
        mp == (5 * doy + 2) \div 153
        month == IF mp < 10 THEN mp + 3 ELSE mp - 9
    IN  [year |-> yoe + era * 400 + (IF month <= 2 THEN 1 ELSE 0),
         month |-> month,
         day |-> doy - (153 * mp + 2) \div 5 + 1,
         hour |-> seconds \div 3600,
         minute |-> (seconds % 3600) \div 60,
         second |-> seconds % 60]

\* unix_timestamp_to_datetime without the check_match of formats.py:602.
unix_timestamp_to_datetime_unchecked(unix_timestamp) ==
    IF unix_timestamp.t # "int" THEN [exc |-> "TypeError", value |-> Nothing]
    ELSE [exc |-> "none", value |-> gmtime(unix_timestamp.v[1], unix_timestamp.v[2])]

\* formats.py:575-615
unix_timestamp_to_datetime(unix_timestamp) ==
    IF check_match(UNIX_TIMESTAMP_SCHEMA, unix_timestamp) # "none"
    THEN [exc |-> "FormatError", value |-> Nothing]
    ELSE [exc |-> "none", value |-> gmtime(unix_timestamp.v[1], unix_timestamp.v[2])]

\* binascii's table_a2b_base64 for the characters the model uses; 64 stands for
\* a character that is not in the base64 alphabet.
Base64Value(c) ==
    CASE c = "A" -> 0 [] c = "Q" -> 16 [] c = "/" -> 63 [] OTHER -> 64

\* binascii.a2b_base64(data) in its default, non-strict mode, from the state
\* st = [quad_pos, pads, leftchar, bytes] on: a character outside the alphabet
\* is skipped, a pad that completes a quantum ends the decoding, and data that
\* end inside a quantum are a binascii.Error.
RECURSIVE a2b_base64_from(_, _)
a2b_base64_from(data, st) ==
    IF data = <<>>
    THEN [exc |-> IF st.quad_pos # 0 THEN "binascii.Error" ELSE "none", bytes |-> st.bytes]
    ELSE LET c == Head(data)
             this_ch == Base64Value(c)
         IN  IF c = "="
             THEN IF st.quad_pos >= 2
                  THEN IF st.quad_pos + st.pads + 1 >= 4
                       THEN [exc |-> "none", bytes |-> st.bytes]
                       ELSE a2b_base64_from(Tail(data), [st EXCEPT !.pads = @ + 1])
                  ELSE a2b_base64_from(Tail(data), st)
             ELSE IF this_ch >= 64 THEN a2b_base64_from(Tail(data), st)
             ELSE a2b_base64_from(Tail(data),
                    CASE st.quad_pos = 0 ->
                            [quad_pos |-> 1, pads |-> 0, leftchar |-> this_ch,
                             bytes |-> st.bytes]
                      [] st.quad_pos = 1 ->
                            [quad_pos |-> 2, pads |-> 0, leftchar |-> this_ch % 16,
                             bytes |-> Append(st.bytes, st.leftchar * 4 + this_ch \div 16)]
                      [] st.quad_pos = 2 ->
                            [quad_pos |-> 3, pads |-> 0, leftchar |-> this_ch % 4,
                             bytes |-> Append(st.bytes, st.leftchar * 16 + this_ch \div 4)]
                      [] st.quad_pos = 3 ->
                            [quad_pos |-> 0, pads |-> 0, leftchar |-> 0,
                             bytes |-> Append(st.bytes, st.leftchar * 64 + this_ch)])

a2b_base64(data) ==
    a2b_base64_from(data, [quad_pos |-> 0, pads |-> 0, leftchar |-> 0, bytes |-> <<>>])

\* A lone surrogate, which str.encode('utf-8') refuses with UnicodeEncodeError.
Surrogate == "\\ud800"

\* formats.py:650-685
parse_base64(base64_string) ==
    IF base64_string.t # "str" THEN [exc |-> "FormatError", value |-> Nothing]
    ELSE LET extra == Len(base64_string.v) % 4
             padded == IF extra # 0
                       THEN base64_string.v \o [i \in 1..(4 - extra) |-> "="]
                       ELSE base64_string.v
         IN  IF \E i \in 1..Len(padded) : padded[i] = Surrogate
             THEN [exc |-> "UnicodeEncodeError", value |-> Nothing]
             ELSE LET decoded == a2b_base64(padded)
                  IN  IF decoded.exc # "none"
                      THEN [exc |-> "FormatError", value |-> Nothing]
                      ELSE [exc |-> "none", value |-> Bytes(decoded.bytes)]

\* Longest text handed to parse_base64.
MaxBase64Len == 4

Timestamps ==
    {PyLong(-1, 0), PyLong(-1, 86399), PyLong(0, 0), PyLong(0, 86399), PyLong(1, 0),
     PyLong(11016, 0), PyLong(16729, 70080), PyLong(24855, 11647), PyLong(24855, 11648),
     PyLong(24856, 0), None, Str(<<"0">>)}

Base64Arguments ==
    {Str(text) : text \in SeqsUpTo({"A", "Q", "/", "!", "=", Surrogate}, MaxBase64Len)}
    \cup {None, Bytes(<<65, 65, 65, 65>>)}

\* unix_timestamp_to_datetime(t)
UnixTimestampToDatetime ==
    /\ helper = Nothing
    /\ matched = Nothing
    /\ edits = 0
    /\ \E t \in Timestamps :
          LET run == unix_timestamp_to_datetime(t)
          IN  helper' = [op |-> "unix_timestamp_to_datetime", arg |-> t,
                         exc |-> run.exc, value |-> run.value]
    /\ UNCHANGED <<candidate, edits, matched, key, verifyVars, keyVars, encodeVars, threadVars>>

\* parse_base64(x)
ParseBase64 ==
    /\ helper = Nothing
    /\ matched = Nothing
    /\ edits = 0
    /\ \E x \in Base64Arguments :
          LET run == parse_base64(x)
          IN  helper' = [op |-> "parse_base64", arg |-> x,
                         exc |-> run.exc, value |-> run.value]
    /\ UNCHANGED <<candidate, edits, matched, key, verifyVars, keyVars, encodeVars, threadVars>>

(***************************************************************************)
(* SpecFormats: values are handed to schemas, and arguments to the format  *)
(* helpers.                                                                *)
(***************************************************************************)
InitSpecFormats ==
    /\ key = Nothing
    /\ InitVerify
    /\ ~CRYPTO_IMPORT_ERROR
    /\ InitKey
    /\ InitEncode
    /\ candidate \in Templates
    /\ edits = 0
    /\ matched = Nothing
    /\ helper = Nothing
    /\ InitThreads

NextFormats ==
    \/ SetField
    \/ DelField
    \/ CheckMatch
    \/ UnixTimestampToDatetime
    \/ ParseBase64

SpecFormats == InitSpecFormats /\ [][NextFormats]_vars

(***************************************************************************)
(* Claims about the schemas and the format helpers, under SpecFormats.     *)
(***************************************************************************)
\* The candidate was handed to the schema of that name.
HandedTo(name) == matched # Nothing /\ matched.schema = name

\* The alternative requires a literal _type, and the value carries that literal.
TaggedAs(alternative, v) ==
    /\ "_type" \in DOMAIN v.v
    /\ \E i \in 1..Len(alternative.fields) :
          /\ alternative.fields[i][1] = "_type"
          /\ alternative.fields[i][2].k = "String"
          /\ v.v["_type"] = Str(alternative.fields[i][2].string)

\* C15: every value ANYROLE_SCHEMA accepts matches exactly one of its
\* alternatives, and each alternative it matches requires a literal _type that
\* the value carries: no accepted value matches two alternatives, and no
\* alternative accepts a value without regard to _type.
C15_AnyRoleIsTaggedSum ==
    (HandedTo("ANYROLE_SCHEMA") /\ matched.matches) =>
        LET alternatives == ANYROLE_SCHEMA.alternatives
            matching == {i \in 1..Len(alternatives) : Matches(alternatives[i], candidate)}
        IN  /\ Cardinality(matching) = 1
            /\ \A i \in matching : TaggedAs(alternatives[i], candidate)

\* A text of one or more hex digits.
IsHexText(v) == v.t = "str" /\ v.v # <<>> /\ \A i \in 1..Len(v.v) : v.v[i] \in HexDigits

\* C16: an Object schema accepts a mapping iff every required field is present
\* and matches and every optional field that is present matches, whatever other
\* keys the mapping has.  SIGNATURE_SCHEMA accepts exactly the mappings with a
\* hex keyid and a hex sig; MIRROR_SCHEMA exactly those with text url_prefix,
\* metadata_path and targets_path, a list of texts confined_target_dirs and, if
\* present, a mapping custom.  check_match fails with FormatError exactly when
\* the schema does not match.
C16_ObjectForwardCompatible ==
    /\ HandedTo("SIGNATURE_SCHEMA") =>
          matched.matches =
              (/\ "keyid" \in DOMAIN candidate.v /\ IsHexText(candidate.v["keyid"])
               /\ "sig" \in DOMAIN candidate.v /\ IsHexText(candidate.v["sig"]))
    /\ HandedTo("MIRROR_SCHEMA") =>
          matched.matches =
              (/\ \A name \in {"url_prefix", "metadata_path", "targets_path"} :
                     name \in DOMAIN candidate.v /\ candidate.v[name].t = "str"
               /\ "confined_target_dirs" \in DOMAIN candidate.v
               /\ candidate.v["confined_target_dirs"].t = "list"
               /\ \A i \in 1..Len(candidate.v["confined_target_dirs"].v) :
                     candidate.v["confined_target_dirs"].v[i].t = "str"
               /\ "custom" \in DOMAIN candidate.v => candidate.v["custom"].t = "dict")
    /\ matched # Nothing => (matched.exc = "FormatError") = ~matched.matches

C16_Witness ==
    /\ HandedTo("SIGNATURE_SCHEMA")
    /\ DOMAIN candidate.v = {"keyid", "sig", "extra"}
    /\ matched.matches
    /\ matched.exc = "none"

\* The last helper call was of that function.
Helped(op) == helper # Nothing /\ helper.op = op

\* 0 <= 86400 * days + seconds <= 2147483647
InTimestampRange(days, seconds) ==
    /\ days >= 0
    /\ \/ days < 2147483647 \div 86400
       \/ days = 2147483647 \div 86400 /\ seconds <= 2147483647 - 86400 * days

\* C17: UNIX_TIMESTAMP_SCHEMA accepts an integer t iff 0 <= t <= 2147483647 (0
\* and 2147483647 are accepted, -1 and 2147483648 are not), and
\* unix_timestamp_to_datetime fails with FormatError and yields no datetime for
\* every t outside the range, and yields a datetime for every t inside it.
C17_TimestampRangeChecked ==
    /\ Matches(UNIX_TIMESTAMP_SCHEMA, PyLong(0, 0))
    /\ Matches(UNIX_TIMESTAMP_SCHEMA, PyLong(24855, 11647))
    /\ ~Matches(UNIX_TIMESTAMP_SCHEMA, PyLong(-1, 86399))
    /\ ~Matches(UNIX_TIMESTAMP_SCHEMA, PyLong(24855, 11648))
    /\ (Helped("unix_timestamp_to_datetime") /\ helper.arg.t = "int") =>
          LET inside == InTimestampRange(helper.arg.v[1], helper.arg.v[2])
          IN  /\ Matches(UNIX_TIMESTAMP_SCHEMA, helper.arg) = inside
              /\ inside => helper.exc = "none" /\ helper.value # Nothing
              /\ ~inside => helper.exc = "FormatError" /\ helper.value = Nothing

C17_Witness ==
    /\ Helped("unix_timestamp_to_datetime")
    /\ helper.arg = PyLong(24855, 11648)
    /\ 24855 * 86400 + 11647 = 2147483647
    /\ helper.exc = "FormatError"
    /\ unix_timestamp_to_datetime(PyLong(24855, 11647)).value =
          [year |-> 2038, month |-> 1, day |-> 19, hour |-> 3, minute |-> 14, second |-> 7]

\* The characters of the base64 alphabet among those the model uses.
Base64Alphabet == {"A", "Q", "/"}

\* A text of characters of the base64 alphabet only, without padding, whose
\* length '=' signs can complete to a multiple of four.
WellFormedTrimmed(x) ==
    /\ x.t = "str"
    /\ \A i \in 1..Len(x.v) : x.v[i] \in Base64Alphabet
    /\ Len(x.v) % 4 # 1

\* C18: parse_base64 fails with FormatError, and with no other error, on every
\* argument that is not a text, every text with a character outside the base64
\* alphabet and every text whose length padding cannot complete; it returns
\* bytes only for well-formed trimmed base64 text.
C18_MalformedBase64Rejected ==
    Helped("parse_base64") =>
        /\ helper.exc \in {"none", "FormatError"}
        /\ ~WellFormedTrimmed(helper.arg) => helper.exc = "FormatError"

(***************************************************************************)
(* SpecThreads: once the dispatch table is populated, threads call         *)
(* Key.from_dict concurrently, each with a dict of its own.  A thread runs *)
(* the statements of _key.py:125-133 one at a time, and the statements of  *)
(* different threads interleave in any order.  A thread is                 *)
(* [pc, keyid, arg, key_dict, keytype, scheme, key_impl, res]: where it    *)
(* is, its arguments (arg is the dict as it was handed over), its locals   *)
(* and what the call returned or raised.                                   *)
(***************************************************************************)
\* The number of threads.
MaxThreads == 2

Threads == 1..MaxThreads

Idle ==
    [pc |-> "idle", keyid |-> Nothing, arg |-> Nothing, key_dict |-> Nothing,
     keytype |-> Nothing, scheme |-> Nothing, key_impl |-> "", res |-> Nothing]

\* (keytype, scheme) not in KEY_FOR_TYPE_AND_SCHEME done as
\* KEY_FOR_TYPE_AND_SCHEME.setdefault((keytype, scheme), SSlibKey): a pair that
\* is not there is entered.
registry_contains_defaulting(registry, pair) ==
    [found |-> TRUE,
     registry |-> [p \in DOMAIN registry \cup {pair} |->
                      IF p \in DOMAIN registry THEN registry[p] ELSE "SSlibKey"]]

\* _key.py:127, (keytype, scheme) in KEY_FOR_TYPE_AND_SCHEME: the answer, and
\* the table as the test leaves it.
registry_contains(registry, pair) ==
    [found |-> pair \in DOMAIN registry, registry |-> registry]

\* _key.py:132, KEY_FOR_TYPE_AND_SCHEME[(keytype, scheme)]: KeyError for a pair
\* that is not there.
registry_getitem(registry, pair) ==
    IF pair \in DOMAIN registry
    THEN [exc |-> "none", key_impl |-> registry[pair], registry |-> registry]
    ELSE [exc |-> "KeyError", key_impl |-> "", registry |-> registry]

\* The populated tables tried.
Registries ==
    {[pair \in pairs |-> IF pair = <<None, None>> THEN "OtherKey" ELSE "SSlibKey"] :
        pairs \in {{<<Str(<<"rsa">>), Str(RsaPssSha256)>>},
                   {<<Str(<<"rsa">>), Str(RsaPssSha256)>>, <<None, None>>},
                   RegPairs}}

\* The dicts handed to the concurrent calls.
ThreadDicts ==
    {d \in KeyDicts :
        /\ "keyid" \notin DOMAIN d
        /\ "custom" \in DOMAIN d
        /\ "keytype" \in DOMAIN d => d["keytype"] = Str(<<"rsa">>)
        /\ "keyval" \in DOMAIN d =>
              d["keyval"] = Dict([k \in {"public"} |-> Str(<<"a", "a">>)])}

\* The state with thread t changed to th.
ThreadBecomes(t, th) == threads' = [threads EXCEPT ![t] = th]

\* Thread t calls Key.from_dict(keyid, d) with a dict d of its own.
Call(t) ==
    /\ threads[t].pc = "idle"
    /\ \E d \in ThreadDicts :
          ThreadBecomes(t, [Idle EXCEPT !.pc = "keytype", !.keyid = Str(<<"k1">>),
                                        !.arg = Dict(d), !.key_dict = Dict(d)])
    /\ UNCHANGED <<key, verifyVars, keyVars, encodeVars, formatVars>>

\* _key.py:125, keytype = key_dict.get("keytype")
GetKeytype(t) ==
    /\ threads[t].pc = "keytype"
    /\ ThreadBecomes(t, [threads[t] EXCEPT !.pc = "scheme",
                                           !.keytype = Get(threads[t].key_dict.v, "keytype")])
    /\ UNCHANGED <<key, verifyVars, keyVars, encodeVars, formatVars>>

\* _key.py:126, scheme = key_dict.get("scheme")
GetScheme(t) ==
    /\ threads[t].pc = "scheme"
    /\ ThreadBecomes(t, [threads[t] EXCEPT !.pc = "check",
                                           !.scheme = Get(threads[t].key_dict.v, "scheme")])
    /\ UNCHANGED <<key, verifyVars, keyVars, encodeVars, formatVars>>

\* _key.py:127-128, if (keytype, scheme) not in KEY_FOR_TYPE_AND_SCHEME: raise ValueError
CheckSupported(t) ==
    /\ threads[t].pc = "check"
    /\ LET test == registry_contains(KEY_FOR_TYPE_AND_SCHEME,
                                     <<threads[t].keytype, threads[t].scheme>>)
       IN  /\ KEY_FOR_TYPE_AND_SCHEME' = test.registry
           /\ IF test.found
              THEN ThreadBecomes(t, [threads[t] EXCEPT !.pc = "getitem"])
              ELSE ThreadBecomes(t, [threads[t] EXCEPT
                       !.pc = "done",
                       !.res = [exc |-> "ValueError", key |-> Nothing,
                                dict |-> threads[t].key_dict.v, called |-> <<>>]])
    /\ UNCHANGED <<key, key_dict, arg, res, out, verifyVars, encodeVars, formatVars>>

\* _key.py:132, key_impl = KEY_FOR_TYPE_AND_SCHEME[(keytype, scheme)]
GetImplementation(t) ==
    /\ threads[t].pc = "getitem"
    /\ LET got == registry_getitem(KEY_FOR_TYPE_AND_SCHEME,
                                   <<threads[t].keytype, threads[t].scheme>>)
       IN  /\ KEY_FOR_TYPE_AND_SCHEME' = got.registry
           /\ IF got.exc = "none"
              THEN ThreadBecomes(t, [threads[t] EXCEPT !.pc = "from_dict",
                                                       !.key_impl = got.key_impl])
              ELSE ThreadBecomes(t, [threads[t] EXCEPT
                       !.pc = "done",
                       !.res = [exc |-> got.exc, key |-> Nothing,
                                dict |-> threads[t].key_dict.v, called |-> <<>>]])
    /\ UNCHANGED <<key, key_dict, arg, res, out, verifyVars, encodeVars, formatVars>>

\* _key.py:133, return key_impl.from_dict(keyid, key_dict): the implementation
\* works on the thread's own arguments.
Dispatch(t) ==
    /\ threads[t].pc = "from_dict"
    /\ \E r \in ImplFromDict(threads[t].key_impl, threads[t].keyid, threads[t].key_dict.v) :
          ThreadBecomes(t, [threads[t] EXCEPT !.pc = "done", !.key_dict = Dict(r.dict),
                                              !.res = r])
    /\ UNCHANGED <<key, verifyVars, keyVars, encodeVars, formatVars>>

InitSpecThreads ==
    /\ key = Nothing
    /\ InitVerify
    /\ ~CRYPTO_IMPORT_ERROR
    /\ KEY_FOR_TYPE_AND_SCHEME \in Registries
    /\ key_dict = Nothing
    /\ arg = Nothing
    /\ res = Nothing
    /\ out = Nothing
    /\ InitEncode
    /\ InitFormats
    /\ threads = [t \in Threads |-> Idle]

NextThreads ==
    \E t \in Threads :
        \/ Call(t)
        \/ GetKeytype(t)
        \/ GetScheme(t)
        \/ CheckSupported(t)
        \/ GetImplementation(t)
        \/ Dispatch(t)

SpecThreads == InitSpecThreads /\ [][NextThreads]_vars

(***************************************************************************)
(* Claims about concurrent lookups, under SpecThreads.                     *)
(***************************************************************************)
\* C19: with the dispatch table populated, no step of any interleaving of
\* concurrent Key.from_dict calls changes the table, and every call that has
\* ended has a result that the same call, run alone on the dict it was handed,
\* can have.
C19_ConcurrentLookupsSafe ==
    /\ [][KEY_FOR_TYPE_AND_SCHEME' = KEY_FOR_TYPE_AND_SCHEME]_vars
    /\ [](\A t \in Threads :
              threads[t].pc = "done" =>
                  threads[t].res \in Key_from_dict(KEY_FOR_TYPE_AND_SCHEME, threads[t].keyid,
                                                   threads[t].arg.v))

\* A call that found its pair unsupported has ended after a call for the same
\* pair was started and before that call has looked the pair up.
C19_Witness ==
    /\ threads[1].pc = "done"
    /\ threads[1].res.exc = "ValueError"
    /\ threads[2].pc = "check"
    /\ threads[2].arg = threads[1].arg
    /\ <<None, None>> \notin DOMAIN KEY_FOR_TYPE_AND_SCHEME
    /\ "keytype" \notin DOMAIN threads[1].arg.v

\* The keyval of the value has no private portion, or an empty one.
PrivateUnsetOrEmpty(v) ==
    /\ "keyval" \in DOMAIN v.v
    /\ v.v["keyval"].t = "dict"
    /\ "private" \in DOMAIN v.v["keyval"].v => v.v["keyval"].v["private"] = Str(<<>>)

\* C21: a value PUBLIC_KEY_SCHEMA accepts is accepted by KEY_SCHEMA too (it has
\* a text keytype, a text scheme and a keyval with a text public), and its
\* keyval's private is absent or the empty string.
C21_PublicKeyIsRestrictedKey ==
    (HandedTo("PUBLIC_KEY_SCHEMA") /\ matched.matches) =>
        /\ Matches(KEY_SCHEMA, candidate)
        /\ "scheme" \in DOMAIN candidate.v /\ candidate.v["scheme"].t = "str"
        /\ PrivateUnsetOrEmpty(candidate)

(***************************************************************************)
(* SpecInjective: two values, each of at most MaxPairNodes scalars,        *)
(* sequences and mappings, are handed to encode_canonical.                 *)
(***************************************************************************)
\* Most nodes in each of the two values.
MaxPairNodes == 3

\* The scalars the two values are built of: a number and the text of its
\* digits, a text, and a text that reads as two encoded texts with a comma
\* between them.
PairAtoms ==
    {PyInt(1), Str(<<"1">>), Str(<<"a">>), Str(<<"a", "\"", ",", "\"", "a">>)}

PairKeys == {<<"a">>, <<"b">>}

RECURSIVE ValuesOfSize(_), ElementsOfSize(_), ItemsOfSize(_, _)

\* The sequences of values that have n nodes in all.
ElementsOfSize(n) ==
    IF n = 0 THEN {<<>>}
    ELSE UNION {{<<x>> \o rest : x \in ValuesOfSize(j), rest \in ElementsOfSize(n - j)} :
                   j \in 1..n}

\* The sequences of items, under keys of that set at most once each and in any
\* order of insertion, whose values have n nodes in all.
ItemsOfSize(n, keys) ==
    IF n = 0 THEN {<<>>}
    ELSE UNION {{<<<<Str(k), x>>>> \o rest :
                    x \in ValuesOfSize(j), rest \in ItemsOfSize(n - j, keys \ {k})} :
                   j \in 1..n, k \in keys}

\* The values of exactly n nodes.
ValuesOfSize(n) ==
    IF n = 1 THEN PairAtoms
    ELSE {List(vs) : vs \in ElementsOfSize(n - 1)}
         \cup {Mapping(items) : items \in ItemsOfSize(n - 1, PairKeys)}

PairValues == UNION {ValuesOfSize(n) : n \in 1..MaxPairNodes}

InitSpecInjective ==
    /\ key = Nothing
    /\ InitVerify
    /\ ~CRYPTO_IMPORT_ERROR
    /\ InitKey
    /\ object \in PairValues
    /\ other \in PairValues
    /\ result = Nothing
    /\ result2 = Nothing
    /\ streamed = Nothing
    /\ InitFormats
    /\ InitThreads

\* result, result2 = encode_canonical(object), encode_canonical(other)
EncodePair ==
    /\ result = Nothing
    /\ result' = encode_canonical(object)
    /\ result2' = encode_canonical(other)
    /\ UNCHANGED <<object, other, streamed, key, verifyVars, keyVars, formatVars, threadVars>>

NextInjective == EncodePair

SpecInjective == InitSpecInjective /\ [][NextInjective]_vars

(***************************************************************************)
(* Claims about pairs of encoded values, under SpecInjective.              *)
(***************************************************************************)
\* a == b in Python, for values of the kinds above: sequences are equal
\* element by element, mappings when they hold the same keys with equal values,
\* whatever the order of insertion.
RECURSIVE Same(_, _)
Same(a, b) ==
    /\ a.t = b.t
    /\ CASE a.t = "list" ->
              /\ Len(a.v) = Len(b.v)
              /\ \A i \in 1..Len(a.v) : Same(a.v[i], b.v[i])
         [] a.t = "dict" ->
              /\ Len(a.v) = Len(b.v)
              /\ \A i \in 1..Len(a.v) :
                    \E j \in 1..Len(b.v) :
                        a.v[i][1] = b.v[j][1] /\ Same(a.v[i][2], b.v[j][2])
         [] OTHER -> a = b

\* Both values were encoded, and to the same output.
EncodedAlike ==
    /\ result # Nothing
    /\ result2 # Nothing
    /\ result.exc = "none"
    /\ result2.exc = "none"
    /\ result.value = result2.value

\* C22: two values built of null, booleans, integers, texts, sequences and
\* text-keyed mappings that encode_canonical encodes to the same output are the
\* same value.
C22_EncodingInjective == EncodedAlike => Same(object, other)

\* Two mappings of the same items, inserted in different orders, were encoded
\* alike; one item is a number and the other the text of its digits.
C22_Witness ==
    /\ EncodedAlike
    /\ object = Mapping(<<<<Str(<<"a">>), PyInt(1)>>, <<Str(<<"b">>), Str(<<"1">>)>>>>)
    /\ other = Mapping(<<<<Str(<<"b">>), Str(<<"1">>)>>, <<Str(<<"a">>), PyInt(1)>>>>)

====
